---------------------------- MODULE Spec2Model ----------------------------
(***************************************************************************)
(* A model of teradata/tdodbc.py: the ODBC binding layer of PyTd.          *)
(*                                                                         *)
(* The native driver is the environment: every native call returns an     *)
(* outcome (return code, the handle's diagnostic records, and the code     *)
(* the diagnostic primitive gives past the last record) that the driver    *)
(* chooses.  The Python code is modelled function by function: a function  *)
(* of the source is an operator that yields the set of results it can end  *)
(* with, one per choice of the driver's outcomes along its control flow.   *)
(***************************************************************************)
EXTENDS Integers, Sequences, FiniteSets, TLC

(***************************************************************************)
(* ODBC constants (tdodbc.py lines 33-49, 64).                             *)
(***************************************************************************)
SQL_SUCCESS == 0
SQL_SUCCESS_WITH_INFO == 1
SQL_ERROR == -1
SQL_INVALID_HANDLE == -2
SQL_NEED_DATA == 99
SQL_NO_DATA == 100
SQL_NULL_DATA == -1
SQL_NTS == -3
SQL_COMMIT == 0
SQL_ROLLBACK == 1
SMALL_BUFFER_SIZE == 4096

SQL_STATE_DATA_TRUNCATED == "01004"
SQL_STATE_CONNECTION_NOT_OPEN == "08003"
SQL_STATE_INVALID_TRANSACTION_STATE == "25000"

(***************************************************************************)
(* Bounds of the model.                                                     *)
(***************************************************************************)
MaxDiag == 2

Conns == {1, 2}
CursorNums == {1, 2}
CursorIds == Conns \X CursorNums

VARIABLES
  odbc,         \* the module global odbc: "None" or "loaded"
  hEnv,         \* the module global hEnv: "None", "nullptr" or "valid"
  hDbc,         \* per Connection object: "absent", "nullptr", "valid", "None"
  handshook,    \* per Connection: SQLDriverConnectW returned a success code
  hStmt,        \* per Cursor object: "absent", "valid", "None"
  cursors,      \* per Connection: the list self.cursors
  connections,  \* the module global list connections
  calls,        \* the native calls the last operation issued, in order
  lastOp,       \* the last operation and how it ended
  input,        \* the arguments of the function a function specification applies
  output,       \* its result, Pending before it is applied
  lock,         \* the module global lock: 0 when free, else the thread holding it
  thread,       \* per thread: where it is in init() / OdbcConnection.__init__
  natives       \* how often the library was loaded and SQLAllocHandle(ENV) called

lifeVars == <<odbc, hEnv, hDbc, handshook, hStmt, cursors, connections>>
funVars == <<input, output>>
threadVars == <<lock, thread, natives>>
vars == <<odbc, hEnv, hDbc, handshook, hStmt, cursors, connections, calls, lastOp,
          input, output, lock, thread, natives>>

(***************************************************************************)
(* Errors and driver outcomes.                                              *)
(***************************************************************************)
NoErr == [type |-> "none", state |-> "", fn |-> ""]
Err(type, state, fn) == [type |-> type, state |-> state, fn |-> fn]
Raised(e) == e.type # "none"

\* One diagnostic record of the driver: its SQLSTATE, the length of its
\* message and its native error code.
Diag(state) == [state |-> state, msgLen |-> 1, native |-> 1]

Outcome(rc, recs, endRc) == [rc |-> rc, recs |-> recs, endRc |-> endRc]
Ok == Outcome(SQL_SUCCESS, <<>>, SQL_NO_DATA)
InvalidHandle == Outcome(SQL_INVALID_HANDLE, <<>>, SQL_INVALID_HANDLE)

RECURSIVE SeqsUpTo(_, _)
SeqsUpTo(S, n) ==
  IF n = 0 THEN {<<>>}
  ELSE LET shorter == SeqsUpTo(S, n - 1)
       IN shorter \cup {Append(s, x) : s \in {t \in shorter : Len(t) = n - 1}, x \in S}

\* What any native call may return on a valid handle.
GenOutcomes ==
  { Ok,
    Outcome(SQL_SUCCESS_WITH_INFO, <<Diag("01000")>>, SQL_NO_DATA),
    Outcome(SQL_ERROR, <<Diag("HY000")>>, SQL_NO_DATA),
    Outcome(SQL_ERROR, <<>>, SQL_NO_DATA),
    InvalidHandle }

\* What SQLDisconnect may return: the states the close path looks at, in
\* every order, under a warning and under a failure.
DiscStates == {SQL_STATE_CONNECTION_NOT_OPEN, SQL_STATE_INVALID_TRANSACTION_STATE, "HY000"}
DiscDiagLists == {[i \in DOMAIN s |-> Diag(s[i])] : s \in SeqsUpTo(DiscStates, MaxDiag)}
DiscOutcomes ==
  {Ok, InvalidHandle}
    \cup {Outcome(rc, recs, SQL_NO_DATA) :
            rc \in {SQL_SUCCESS_WITH_INFO, SQL_ERROR}, recs \in DiscDiagLists}
DiscBasic ==
  {Ok, InvalidHandle}
    \cup {Outcome(SQL_ERROR, <<Diag(s)>>, SQL_NO_DATA) : s \in DiscStates}

(***************************************************************************)
(* getDiagnosticInfo (lines 103-128).                                       *)
(***************************************************************************)
\* The driver's SQLGetDiagRecW: record infoNumber of the handle into a
\* message buffer of bufLen characters.  Past the last record it returns
\* endRc (SQL_NO_DATA on a live handle).  A message that does not fit with
\* its terminator is cut, reported with SQL_SUCCESS_WITH_INFO and its full
\* length.
SQLGetDiagRecW(recs, endRc, infoNumber, bufLen) ==
  IF infoNumber > Len(recs)
    THEN [rc |-> endRc, state |-> "", native |-> 0, messageLength |-> 0, msg |-> 0]
    ELSE LET r == recs[infoNumber]
             fits == r.msgLen < bufLen
         IN [rc |-> IF fits THEN SQL_SUCCESS ELSE SQL_SUCCESS_WITH_INFO,
             state |-> r.state, native |-> r.native,
             messageLength |-> r.msgLen,
             msg |-> IF fits THEN r.msgLen ELSE bufLen - 1]

Abs(n) == IF n < 0 THEN -n ELSE n

\* The loop of lines 111-128.  reqs lists the SQLGetDiagRecW calls issued so
\* far: the index asked for, the length of the buffer offered and the
\* return code.
RECURSIVE getDiagnosticLoop(_, _, _, _, _, _)
getDiagnosticLoop(recs, endRc, infoNumber, bufLen, info, reqs) ==
  LET r == SQLGetDiagRecW(recs, endRc, infoNumber, bufLen)
      rq == Append(reqs, [infoNumber |-> infoNumber, bufLen |-> bufLen, rc |-> r.rc])
  IN IF r.rc = SQL_SUCCESS_WITH_INFO /\ r.messageLength > bufLen
       THEN getDiagnosticLoop(recs, endRc, infoNumber, r.messageLength, info, rq)
     ELSE IF r.rc = SQL_SUCCESS \/ r.rc = SQL_SUCCESS_WITH_INFO
       THEN getDiagnosticLoop(recs, endRc, infoNumber + 1, bufLen,
              Append(info, [state |-> r.state, msg |-> r.msg, native |-> Abs(r.native)]), rq)
     ELSE IF r.rc = SQL_NO_DATA
       THEN [err |-> NoErr, info |-> info, reqs |-> rq]
     ELSE IF r.rc = SQL_INVALID_HANDLE
       THEN [err |-> Err("InterfaceError", "SQL_INVALID_HANDLE", "SQLGetDiagRecW"),
             info |-> info, reqs |-> rq]
     ELSE IF r.rc = SQL_ERROR
       THEN [err |-> Err("InterfaceError", "SQL_ERROR", "SQLGetDiagRecW"),
             info |-> info, reqs |-> rq]
     ELSE [err |-> Err("InterfaceError", "UNKNOWN_RETURN_CODE", "SQLGetDiagRecW"),
           info |-> info, reqs |-> rq]

getDiagnosticInfo(recs, endRc) ==
  getDiagnosticLoop(recs, endRc, 1, SMALL_BUFFER_SIZE, <<>>, <<>>)

(***************************************************************************)
(* checkStatus (lines 130-155).  o is the outcome of the call that was     *)
(* checked, ignore the set of ignored states (empty for ignore=None).      *)
(***************************************************************************)
\* The arguments of the DatabaseError raised for the record i (line 148):
\* its code, the message formatted with the state, and the state.
DatabaseErrorArgs(i) ==
  [code |-> i.native, msg |-> <<i.state, i.msg>>, state |-> i.state]

RECURSIVE checkStatusScanAll(_, _, _, _, _, _)
checkStatusScanAll(rc, info, ignore, method, i, sqlState) ==
  IF i > Len(info) THEN [err |-> NoErr, sqlState |-> sqlState]
  ELSE LET st == Append(sqlState, info[i].state)
       IN IF rc = SQL_SUCCESS_WITH_INFO \/ (ignore # {} /\ info[i].state \in ignore)
            THEN checkStatusScanAll(rc, info, ignore, method, i + 1, st)
            ELSE [err |-> Err("DatabaseError", info[i].state, method), sqlState |-> st,
                  args |-> DatabaseErrorArgs(info[i])]

RECURSIVE checkStatusScanRaisesOnInfo(_, _, _, _, _, _)
checkStatusScanRaisesOnInfo(rc, info, ignore, method, i, sqlState) ==
  IF i > Len(info) THEN [err |-> NoErr, sqlState |-> sqlState]
  ELSE LET st == Append(sqlState, info[i].state)
       IN IF ignore = {} \/ info[i].state \notin ignore
            THEN [err |-> Err("DatabaseError", info[i].state, method), sqlState |-> st,
                  args |-> DatabaseErrorArgs(info[i])]
          ELSE [err |-> NoErr, sqlState |-> st]

RECURSIVE checkStatusScan(_, _, _, _, _, _)
checkStatusScan(rc, info, ignore, method, i, sqlState) ==
  IF i > Len(info) THEN [err |-> NoErr, sqlState |-> sqlState]
  ELSE LET st == Append(sqlState, info[i].state)
       IN IF rc = SQL_SUCCESS_WITH_INFO
            THEN checkStatusScan(rc, info, ignore, method, i + 1, st)
          ELSE IF ignore = {} \/ info[i].state \notin ignore
            THEN [err |-> Err("DatabaseError", info[i].state, method), sqlState |-> st,
                  args |-> DatabaseErrorArgs(info[i])]
          ELSE [err |-> NoErr, sqlState |-> st]

checkStatus(o, method, ignore) ==
  IF o.rc \in {SQL_SUCCESS, SQL_NO_DATA}
    THEN [err |-> NoErr, sqlState |-> <<>>]
    ELSE LET d == getDiagnosticInfo(o.recs, o.endRc)
         IN IF Raised(d.err)
              THEN [err |-> d.err, sqlState |-> <<>>]
              ELSE checkStatusScan(o.rc, d.info, ignore, method, 1, <<>>)

(***************************************************************************)
(* The world the lifecycle operations act on, and a result of one of       *)
(* them: the world it leaves, the native calls it issued and the error it  *)
(* raised (NoErr when it returned normally).                                *)
(***************************************************************************)
World ==
  [odbc |-> odbc, hEnv |-> hEnv, hDbc |-> hDbc, handshook |-> handshook,
   hStmt |-> hStmt, cursors |-> cursors, connections |-> connections]

Res(w, cs, e) == [w |-> w, calls |-> cs, err |-> e]

States(recs) == [i \in DOMAIN recs |-> recs[i].state]
Call(fn, arg, o) ==
  [fn |-> fn, arg |-> arg, rc |-> o.rc, states |-> States(o.recs), endRc |-> o.endRc]

InSeq(x, s) == \E i \in DOMAIN s : s[i] = x
Remove(s, x) == SelectSeq(s, LAMBDA y : y # x)
Succeeded(rc) == rc \in {SQL_SUCCESS, SQL_SUCCESS_WITH_INFO}

HandleSetNeverCleared(h) == h \in {"valid", "None"}

\* Python's truth value of a handle field: a c_void_p holding NULL and None
\* are false, an allocated handle is true (lines 295, 372).
HandleSet(h) == h = "valid"

\* The driver's outcomes for a call on handle h: anything on a live handle,
\* SQL_INVALID_HANDLE on a null one.
OutcomesOn(h, S) == IF h = "valid" THEN S ELSE {InvalidHandle}

Outcomes3 ==
  { Ok,
    Outcome(SQL_ERROR, <<Diag("HY000")>>, SQL_NO_DATA),
    Outcome(SQL_ERROR, <<>>, SQL_NO_DATA) }
Outcomes2 == {Ok, Outcome(SQL_ERROR, <<Diag("HY000")>>, SQL_NO_DATA)}

\* What the status check after an SQLAllocHandle meets when it is given
\* the handle the call was to allocate (lines 212, 357): after a failed
\* allocation that handle is null, and reading its diagnostic records
\* gives SQL_INVALID_HANDLE.
OnOutputHandle(o) ==
  IF Succeeded(o.rc) THEN o ELSE Outcome(o.rc, <<>>, SQL_INVALID_HANDLE)

(***************************************************************************)
(* OdbcCursor.__init__ (lines 350-358) and OdbcCursor.close (371-378).     *)
(***************************************************************************)
CursorInit(w, k, S) ==
  { LET st == checkStatus(OnOutputHandle(o), "Method", {})
        cs == <<Call("SQLAllocHandle", "STMT", OnOutputHandle(o))>>
    IN IF Raised(st.err)
         THEN Res(w, cs, st.err)
         ELSE Res([w EXCEPT !.hStmt[k] = IF Succeeded(o.rc) THEN "valid" ELSE "nullptr",
                            !.cursors[k[1]] = Append(@, k)], cs, NoErr)
    : o \in OutcomesOn(w.hDbc[k[1]], S) }

CursorClose(w, k, S) ==
  IF ~HandleSet(w.hStmt[k])
    THEN {Res(w, <<>>, NoErr)}
    ELSE { LET st == checkStatus(o, "Method", {})
               cs == <<Call("SQLFreeHandle", "STMT", o)>>
           IN IF Raised(st.err)
                THEN Res(w, cs, st.err)
                ELSE Res([w EXCEPT !.cursors[k[1]] = Remove(@, k),
                                   !.hStmt[k] = "None"], cs, NoErr)
           : o \in S }

(***************************************************************************)
(* OdbcConnection.close (lines 293-314).  D is the set of outcomes the     *)
(* driver may give SQLDisconnect, S the set for the other calls.            *)
(***************************************************************************)
CloseIgnore == {SQL_STATE_CONNECTION_NOT_OPEN, SQL_STATE_INVALID_TRANSACTION_STATE}

\* The ignore list of the disconnect retried after the forced rollback
\* (line 307: none).
RetryIgnore == {}

\* The outcomes of the retried disconnect: those of D with at most one
\* diagnostic record (with no ignore list the first record decides).
RetryOutcomes(D) == D \cap DiscBasic

closeCursorsSkipped(w, list, cs, S) == {Res(w, cs, NoErr)}

\* lines 297-298: for cursor in list(self.cursors): cursor.close()
RECURSIVE closeCursors(_, _, _, _)
closeCursors(w, list, cs, S) ==
  IF list = <<>>
    THEN {Res(w, cs, NoErr)}
    ELSE UNION { IF Raised(r.err)
                   THEN {Res(r.w, cs \o r.calls, r.err)}
                   ELSE closeCursors(r.w, Tail(list), cs \o r.calls, S)
                 : r \in CursorClose(w, Head(list), S) }

closeFree(w, c, cs, S) ==
  { LET cs1 == Append(cs, Call("SQLFreeHandle", "DBC", o))
        st == IF o.rc # SQL_INVALID_HANDLE
                THEN checkStatus(o, "SQLFreeHandle", {})
                ELSE [err |-> NoErr, sqlState |-> <<>>]
    IN IF Raised(st.err)
         THEN Res(w, cs1, st.err)
         ELSE Res([w EXCEPT !.connections = Remove(@, c), !.hDbc[c] = "None"],
                  cs1, NoErr)
    : o \in S }

closeRollbackNoRetry(w, c, cs, D, S) ==
  UNION { LET cs1 == Append(cs, Call("SQLEndTran", SQL_ROLLBACK, rb))
              st1 == checkStatus(rb, "SQLEndTran - SQL_ROLLBACK - Disconnect", {})
          IN IF Raised(st1.err) THEN {Res(w, cs1, st1.err)} ELSE closeFree(w, c, cs1, S)
          : rb \in S }

closeRollback(w, c, cs, D, S) ==
  UNION { LET cs1 == Append(cs, Call("SQLEndTran", SQL_ROLLBACK, rb))
              st1 == checkStatus(rb, "SQLEndTran - SQL_ROLLBACK - Disconnect", {})
          IN IF Raised(st1.err)
               THEN {Res(w, cs1, st1.err)}
               ELSE UNION { LET cs2 == Append(cs1, Call("SQLDisconnect", "retry", d2))
                                st2 == checkStatus(d2, "SQLDisconnect", RetryIgnore)
                            IN IF Raised(st2.err)
                                 THEN {Res(w, cs2, st2.err)}
                                 ELSE closeFree(w, c, cs2, S)
                            : d2 \in RetryOutcomes(D) }
          : rb \in S }

closeDisconnect(w, c, cs, D, S) ==
  UNION { LET cs1 == Append(cs, Call("SQLDisconnect", "first", d1))
              st1 == checkStatus(d1, "SQLDisconnect", CloseIgnore)
          IN IF Raised(st1.err)
               THEN {Res(w, cs1, st1.err)}
             ELSE IF InSeq(SQL_STATE_INVALID_TRANSACTION_STATE, st1.sqlState)
               THEN closeRollback(w, c, cs1, D, S)
             ELSE closeFree(w, c, cs1, S)
          : d1 \in D }

ConnectionClose(w, c, D, S) ==
  IF ~HandleSet(w.hDbc[c])
    THEN {Res(w, <<>>, NoErr)}
    ELSE UNION { IF Raised(r.err) THEN {r} ELSE closeDisconnect(r.w, c, r.calls, D, S)
                 : r \in closeCursors(w, w.cursors[c], <<>>, S) }

(***************************************************************************)
(* OdbcConnection.commit and rollback (lines 316-326).                      *)
(***************************************************************************)
EndTran(w, c, direction, method, S) ==
  { Res(w, <<Call("SQLEndTran", direction, o)>>, checkStatus(o, method, {}).err)
    : o \in OutcomesOn(w.hDbc[c], S) }

ConnectionCommit(w, c, S) == EndTran(w, c, SQL_COMMIT, "SQLEndTran - SQL_COMMIT", S)
ConnectionRollbackCommits(w, c, S) == ConnectionCommit(w, c, S)
ConnectionRollback(w, c, S) == EndTran(w, c, SQL_ROLLBACK, "SQLEndTran - SQL_ROLLBACK", S)


(***************************************************************************)
(* init, initOdbcLibrary and initOdbcEnv (lines 190-231).                   *)
(***************************************************************************)
initOdbcLibrary(w) ==
  IF w.odbc = "None"
    THEN { Res([w EXCEPT !.odbc = "loaded"], <<>>, NoErr),
           Res(w, <<>>, Err("OSError", "", "LoadLibrary")) }
    ELSE {Res(w, <<>>, NoErr)}

initOdbcEnv(w) ==
  IF w.hEnv = "None"
    THEN UNION {
      LET w1 == [w EXCEPT !.hEnv = IF Succeeded(o.rc) THEN "allocated" ELSE "nullptr"]
          cs1 == <<Call("SQLAllocHandle", "ENV", OnOutputHandle(o))>>
          st1 == checkStatus(OnOutputHandle(o), "Method", {})
      IN IF Raised(st1.err)
           THEN {Res(w1, cs1, st1.err)}
           ELSE { LET cs2 == Append(cs1, Call("SQLSetEnvAttr", "SQL_OV_ODBC3", o2))
                      st2 == checkStatus(o2, "Method", {})
                      w2 == [w1 EXCEPT !.hEnv = IF @ = "allocated" /\ Succeeded(o2.rc)
                                                  THEN "ready" ELSE @]
                  IN Res(w2, cs2, st2.err)
                  : o2 \in IF w1.hEnv = "allocated" THEN Outcomes3 ELSE {InvalidHandle} }
      : o \in Outcomes3 }
    ELSE {Res(w, <<>>, NoErr)}

init(w) ==
  UNION { IF Raised(r.err) THEN {r} ELSE initOdbcEnv(r.w) : r \in initOdbcLibrary(w) }

(***************************************************************************)
(* OdbcConnection.__init__ (lines 235-291).  teradata: dbType is           *)
(* "Teradata"; queryBands: query bands were given.  The statements the     *)
(* setup cursor executes are one step each here: any native call of an     *)
(* execute or fetch may fail, and the step fails with it.                   *)
(***************************************************************************)
SetupCursor(c) == <<c, 1>>

\* c.execute(...) of the setup path: it passes or raises.
setupExecute(w, cs, what) ==
  { Res(w, Append(cs, Call("execute", what, o)), checkStatus(o, "SQLExecDirectW", {}).err)
    : o \in Outcomes2 }

\* The body of "with self.cursor() as c" (lines 283-286).
setupBody(w, cs, queryBands) ==
  UNION { IF Raised(r.err) \/ ~queryBands
            THEN {r}
            ELSE setupExecute(r.w, r.calls, "SET QUERY_BAND")
          : r \in setupExecute(w, cs, "SELECT SESSION") }

\* Leaving the with block closes the cursor, whether the body raised or not;
\* an error of that close replaces the body's.
setupWith(w, c, cs, queryBands) ==
  UNION { IF Raised(r.err)
            THEN {Res(r.w, cs \o r.calls, r.err)}
            ELSE UNION { { Res(x.w, b.calls \o x.calls,
                               IF Raised(x.err) THEN x.err ELSE b.err)
                           : x \in CursorClose(b.w, SetupCursor(c), Outcomes2) }
                         : b \in setupBody(r.w, cs \o r.calls, queryBands) }
          : r \in CursorInit(w, SetupCursor(c), Outcomes2) }

\* The try block of lines 277-288.
connectSetup(w, c, cs, teradata, queryBands) ==
  UNION { LET cs1 == Append(cs, Call("SQLSetConnectAttr", "SQL_ATTR_AUTOCOMMIT", o))
              st1 == checkStatus(o, "SQLSetConnectAttr - SQL_ATTR_AUTOCOMMIT", {})
          IN IF Raised(st1.err) THEN {Res(w, cs1, st1.err)}
             ELSE IF ~teradata THEN {Res(w, cs1, NoErr)}
             ELSE UNION { IF Raised(r.err)
                            THEN {r}
                            ELSE { Res(x.w, r.calls \o x.calls, x.err)
                                   : x \in ConnectionCommit(r.w, c, Outcomes2) }
                          : r \in setupWith(w, c, cs1, queryBands) }
          : o \in OutcomesOn(w.hDbc[c], Outcomes2) }

\* Lines 276-291: the setup, and on any error self.close() and raise e;
\* an error raised by that close propagates in place of e.
connectGuarded(w, c, cs, teradata, queryBands) ==
  UNION { IF ~Raised(r.err)
            THEN {r}
            ELSE { Res(x.w, r.calls \o x.calls, IF Raised(x.err) THEN x.err ELSE r.err)
                   : x \in ConnectionClose(r.w, c, DiscBasic, Outcomes2) }
          : r \in connectSetup(w, c, cs, teradata, queryBands) }

connectHandshake(w, c, cs, teradata, queryBands) ==
  UNION { LET cs1 == Append(cs, Call("SQLDriverConnectW", "", o))
              st1 == checkStatus(o, "SQLDriverConnectW", {})
              w1 == [w EXCEPT !.handshook[c] = Succeeded(o.rc)]
          IN IF Raised(st1.err)
               THEN {Res(w1, cs1, st1.err)}
               ELSE connectGuarded(w1, c, cs1, teradata, queryBands)
          : o \in OutcomesOn(w.hDbc[c], Outcomes3) }

connectAlloc(w, c, cs, teradata, queryBands) ==
  UNION { LET cs1 == Append(cs, Call("SQLAllocHandle", "DBC", o))
              st1 == checkStatus(o, "SQLAllocHandle", {})
              w1 == [w EXCEPT !.hDbc[c] = IF Succeeded(o.rc) THEN "valid" ELSE @]
          IN IF Raised(st1.err)
               THEN {Res(w1, cs1, st1.err)}
               ELSE connectHandshake(w1, c, cs1, teradata, queryBands)
          : o \in IF w.hEnv \in {"allocated", "ready"} THEN Outcomes3 ELSE {InvalidHandle} }

ConnectionInit(w, c, teradata, queryBands) ==
  LET w0 == [w EXCEPT !.hDbc[c] = "nullptr", !.cursors[c] = <<>>,
                      !.connections = Append(@, c)]
  IN UNION { IF Raised(r.err) THEN {r}
             ELSE connectAlloc(r.w, c, r.calls, teradata, queryBands)
             : r \in init(w0) }

(***************************************************************************)
(* The lifecycle specification: a program that constructs connections and  *)
(* cursors and calls their methods, one call at a time.                     *)
(***************************************************************************)
Op(name, c, k, e) == [op |-> name, conn |-> c, cur |-> k, err |-> e]
NoCursor == <<0, 0>>

Finish(name, c, k, r) ==
  /\ odbc' = r.w.odbc
  /\ hEnv' = r.w.hEnv
  /\ hDbc' = r.w.hDbc
  /\ handshook' = r.w.handshook
  /\ hStmt' = r.w.hStmt
  /\ cursors' = r.w.cursors
  /\ connections' = r.w.connections
  /\ calls' = r.calls
  /\ lastOp' = Op(name, c, k, r.err)
  /\ UNCHANGED <<funVars, threadVars>>

\* The threads of the process, and how many calls of init() or connect
\* each of them makes.
NumThreads == 2
MaxThreadOps == 2
Threads == 1..NumThreads

\* A thread between two calls: ops counts the calls it has made, result
\* tells how the last one ended.
Idle(ops, result) ==
  [pc |-> "idle", op |-> "none", err |-> NoErr, ops |-> ops, result |-> result,
   hDbc |-> "none", rc |-> SQL_SUCCESS]

\* No thread has started, the lock (line 70) is free.
ThreadInit ==
  /\ lock = 0
  /\ thread = [t \in Threads |-> Idle(0, "none")]
  /\ natives = [loads |-> 0, envAllocs |-> 0, initReturned |-> FALSE]

\* The state of the module after import: nothing loaded, no object built.
LifeInit ==
  /\ ThreadInit
  /\ odbc = "None"
  /\ hEnv = "None"
  /\ hDbc = [c \in Conns |-> "absent"]
  /\ handshook = [c \in Conns |-> FALSE]
  /\ hStmt = [k \in CursorIds |-> "absent"]
  /\ cursors = [c \in Conns |-> <<>>]
  /\ connections = <<>>
  /\ calls = <<>>
  /\ lastOp = Op("none", 0, NoCursor, NoErr)

Pending == [pending |-> TRUE]
NoInput == [fn |-> "none"]

Init ==
  /\ LifeInit
  /\ input = NoInput
  /\ output = Pending

Connect(c) ==
  /\ hDbc[c] = "absent"
  /\ \E teradata \in BOOLEAN, queryBands \in BOOLEAN :
       \E r \in ConnectionInit(World, c, teradata, queryBands) :
         Finish("connect", c, NoCursor, r)

NewCursor(k) ==
  /\ hDbc[k[1]] # "absent"
  /\ hStmt[k] = "absent"
  /\ \E r \in CursorInit(World, k, GenOutcomes) : Finish("Connection.cursor", k[1], k, r)

CloseCursor(k) ==
  /\ hStmt[k] # "absent"
  /\ \E r \in CursorClose(World, k, GenOutcomes) : Finish("Cursor.close", k[1], k, r)

CloseConnection(c) ==
  /\ hDbc[c] # "absent"
  /\ \E r \in ConnectionClose(World, c, DiscBasic, GenOutcomes) :
       Finish("Connection.close", c, NoCursor, r)

Commit(c) ==
  /\ hDbc[c] # "absent"
  /\ \E r \in ConnectionCommit(World, c, GenOutcomes) :
       Finish("Connection.commit", c, NoCursor, r)

Rollback(c) ==
  /\ hDbc[c] # "absent"
  /\ \E r \in ConnectionRollback(World, c, GenOutcomes) :
       Finish("Connection.rollback", c, NoCursor, r)

\* The connection whose life Spec follows, and its cursors.
Main == CHOOSE c \in Conns : \A d \in Conns : c <= d
MainCursors == {k \in CursorIds : k[1] = Main}

Next ==
  \/ Connect(Main)
  \/ \E k \in MainCursors : NewCursor(k)
  \/ \E k \in MainCursors : CloseCursor(k)
  \/ CloseConnection(Main)
  \/ Commit(Main)
  \/ Rollback(Main)

Spec == Init /\ [][Next]_vars


(***************************************************************************)
(* SpecClose: one method call on one connection, against a driver that may *)
(* answer SQLDisconnect and SQLEndTran with any return code and any list   *)
(* of up to MaxDiag diagnostic records.  The call starts from a connection *)
(* as connect leaves it, with or without an open cursor, or from a closed  *)
(* one.                                                                     *)
(***************************************************************************)
AllRc ==
  {SQL_SUCCESS, SQL_SUCCESS_WITH_INFO, SQL_ERROR, SQL_INVALID_HANDLE, SQL_NEED_DATA,
   SQL_NO_DATA}
DiagEnds == {SQL_NO_DATA, SQL_INVALID_HANDLE, SQL_ERROR}
AnyOutcomes ==
  {Outcome(rc, recs, e) : rc \in AllRc, recs \in DiscDiagLists, e \in DiagEnds}

UserCursor == <<Main, 2>>

\* After connect(dbType="Teradata") and, with userCursor, cursor(); closed:
\* after a close() that returned normally.
InitClose ==
  /\ ThreadInit
  /\ odbc = "loaded"
  /\ hEnv = "ready"
  /\ handshook = [c \in Conns |-> c = Main]
  /\ calls = <<>>
  /\ lastOp = Op("none", 0, NoCursor, NoErr)
  /\ input = NoInput
  /\ output = Pending
  /\ \E userCursor \in BOOLEAN, closed \in BOOLEAN :
       /\ hDbc = [c \in Conns |-> IF c # Main THEN "absent"
                                  ELSE IF closed THEN "None" ELSE "valid"]
       /\ connections = IF closed THEN <<>> ELSE <<Main>>
       /\ cursors = [c \in Conns |-> IF c = Main /\ userCursor /\ ~closed
                                       THEN <<UserCursor>> ELSE <<>>]
       /\ hStmt = [k \in CursorIds |->
                     IF k = SetupCursor(Main) THEN "None"
                     ELSE IF k = UserCursor /\ userCursor
                       THEN (IF closed THEN "None" ELSE "valid")
                     ELSE "absent"]

CloseDetailed ==
  /\ lastOp.op = "none"
  /\ \E r \in ConnectionClose(World, Main, DiscOutcomes, GenOutcomes) :
       Finish("Connection.close", Main, NoCursor, r)

CommitDetailed ==
  /\ lastOp.op = "none"
  /\ \E r \in ConnectionCommit(World, Main, AnyOutcomes) :
       Finish("Connection.commit", Main, NoCursor, r)

RollbackDetailed ==
  /\ lastOp.op = "none"
  /\ \E r \in ConnectionRollback(World, Main, AnyOutcomes) :
       Finish("Connection.rollback", Main, NoCursor, r)

NextClose ==
  \/ CloseDetailed
  \/ CommitDetailed
  \/ RollbackDetailed

SpecClose == InitClose /\ [][NextClose]_vars

(***************************************************************************)
(* SpecStatus: checkStatus applied to every return code, every list of up  *)
(* to MaxDiag diagnostic records and every ignore list the code uses.      *)
(***************************************************************************)
Ignores == {{}, CloseIgnore, {"HY000"}}

StatusInputs ==
  [fn : {"checkStatus"}, o : AnyOutcomes, ignore : Ignores]

\* Records that differ in their native code and in the length of their
\* message as well.
StatusRecords ==
  [state : {SQL_STATE_CONNECTION_NOT_OPEN, "HY000"}, msgLen : {1, SMALL_BUFFER_SIZE},
   native : {3706, -3706}]
DetailedStatusInputs ==
  [fn : {"checkStatus"},
   o : {Outcome(rc, recs, SQL_NO_DATA) : rc \in AllRc, recs \in SeqsUpTo(StatusRecords, MaxDiag)},
   ignore : Ignores]

InitStatus ==
  /\ LifeInit
  /\ input \in StatusInputs \cup DetailedStatusInputs
  /\ output = Pending

ApplyCheckStatus ==
  /\ input.fn = "checkStatus"
  /\ output = Pending
  /\ output' = checkStatus(input.o, "Method", input.ignore)
  /\ UNCHANGED <<lifeVars, threadVars, calls, lastOp, input>>

NextStatus == ApplyCheckStatus

SpecStatus == InitStatus /\ [][NextStatus]_vars

(***************************************************************************)
(* Properties.                                                              *)
(***************************************************************************)
Failure(rc) == rc \notin {SQL_SUCCESS, SQL_SUCCESS_WITH_INFO, SQL_NO_DATA}
CallIdx(fn) == {i \in DOMAIN calls : calls[i].fn = fn}
IsOp(name) == lastOp.op = name

\* C1: close is idempotent.  A close() of a Connection whose handle an
\* earlier close() set to None, and a close() of a Cursor whose handle an
\* earlier close() set to None, issues no native call, raises nothing and
\* leaves the handles, the registry and the owned-cursor lists as they were.
C1_CloseIdempotent ==
  [][ /\ (lastOp'.op = "Connection.close" /\ hDbc[lastOp'.conn] = "None")
           => (calls' = <<>> /\ ~Raised(lastOp'.err) /\ UNCHANGED lifeVars)
      /\ (lastOp'.op = "Cursor.close" /\ hStmt[lastOp'.cur] = "None")
           => (calls' = <<>> /\ ~Raised(lastOp'.err) /\ UNCHANGED lifeVars) ]_vars

\* A second close() of a closed connection one of whose cursors was closed too.
C1_Witness ==
  /\ IsOp("Connection.close")
  /\ hDbc[Main] = "None"
  /\ calls = <<>>
  /\ \E k \in MainCursors : hStmt[k] = "None"

\* What close() saw of its first SQLDisconnect: the status check passed and
\* the list it returned holds 25000.
FirstDisconnect == calls[CHOOSE i \in CallIdx("SQLDisconnect") : calls[i].arg = "first"]
HasFirstDisconnect == \E i \in CallIdx("SQLDisconnect") : calls[i].arg = "first"
Reported25000(d) == InSeq(SQL_STATE_INVALID_TRANSACTION_STATE, d.states)
Observed25000(d) ==
  /\ d.endRc = SQL_NO_DATA
  /\ \/ d.rc = SQL_SUCCESS_WITH_INFO /\ Reported25000(d)
     \/ Failure(d.rc) /\ d.states # <<>>
          /\ d.states[1] = SQL_STATE_INVALID_TRANSACTION_STATE
RollbackIdx == {i \in CallIdx("SQLEndTran") : calls[i].arg = SQL_ROLLBACK}
ClosedNormally == ~Raised(lastOp.err) /\ hDbc[Main] = "None"

\* C2 as claimed: when the first disconnect reports 25000, close issues
\* exactly one rollback and then exactly one further disconnect, frees the
\* handle and returns normally; otherwise no rollback, no second disconnect.
C2_AsClaimed ==
  (IsOp("Connection.close") /\ HasFirstDisconnect) =>
    IF Reported25000(FirstDisconnect)
      THEN /\ Cardinality(RollbackIdx) = 1
           /\ Cardinality(CallIdx("SQLDisconnect")) = 2
           /\ ClosedNormally
      ELSE /\ RollbackIdx = {}
           /\ Cardinality(CallIdx("SQLDisconnect")) = 1

\* C2 amended: when the state list the first disconnect's status check
\* returned holds 25000, close issues exactly one rollback, right after that
\* disconnect, and at most one further disconnect, right after the rollback;
\* it returns normally only after that second disconnect and the
\* free-handle call, with the handle None.  Otherwise it issues no rollback
\* and no second disconnect.
C2_RollbackThenDisconnect ==
  (IsOp("Connection.close") /\ HasFirstDisconnect) =>
    LET d1 == CHOOSE i \in CallIdx("SQLDisconnect") : calls[i].arg = "first"
    IN IF Observed25000(calls[d1])
         THEN /\ RollbackIdx = {d1 + 1}
              /\ CallIdx("SQLDisconnect") \subseteq {d1, d1 + 2}
              /\ ~Raised(lastOp.err) =>
                   /\ CallIdx("SQLDisconnect") = {d1, d1 + 2}
                   /\ Len(calls) = d1 + 3
                   /\ calls[d1 + 3].fn = "SQLFreeHandle" /\ calls[d1 + 3].arg = "DBC"
                   /\ hDbc[Main] = "None"
         ELSE /\ RollbackIdx = {}
              /\ CallIdx("SQLDisconnect") = {d1}

\* A close that saw 25000, rolled back, disconnected again and succeeded.
C2_Witness ==
  /\ IsOp("Connection.close")
  /\ HasFirstDisconnect
  /\ Observed25000(FirstDisconnect)
  /\ Cardinality(RollbackIdx) = 1
  /\ Cardinality(CallIdx("SQLDisconnect")) = 2
  /\ ClosedNormally

\* C3: a connection-not-open diagnostic (08003) of a disconnect call never
\* makes Connection.close() raise.
C3_NotOpenNeverRaises ==
  IsOp("Connection.close") =>
    ~(lastOp.err.type = "DatabaseError"
        /\ lastOp.err.state = SQL_STATE_CONNECTION_NOT_OPEN)


\* The inputs of the checkStatus call SpecStatus applied.
StatusRc == input.o.rc
StatusStates == States(input.o.recs)
StatusDiagRead == input.o.endRc = SQL_NO_DATA
StatusAllIgnored == \A i \in DOMAIN StatusStates : StatusStates[i] \in input.ignore
StatusDone == input.fn = "checkStatus" /\ output # Pending

\* C4 as claimed: for a return code outside {success, success-with-info,
\* no-data} checkStatus raises a database error unless every diagnostic
\* record's state is in the ignore set, and when it does not raise it returns
\* the states of all the records, in record order.
C4_AsClaimed ==
  (StatusDone /\ StatusDiagRead /\ StatusRc \notin {SQL_SUCCESS, SQL_NO_DATA}) =>
    /\ Failure(StatusRc) => (output.err.type = "DatabaseError" <=> ~StatusAllIgnored)
    /\ ~Raised(output.err) => output.sqlState = StatusStates

\* C4 amended: the first record decides.  For a return code outside
\* {success, success-with-info, no-data} checkStatus raises a database error,
\* carrying the first record's state, exactly when there is a first record
\* and its state is not in the ignore set; it raises an interface error
\* exactly when the diagnostic records cannot be read.  When it does not
\* raise it returns the states it scanned: none for success and no-data, all
\* of them in record order for success-with-info, the first one alone for a
\* failure.
C4_FirstRecordDecides ==
  StatusDone =>
    LET firstDecides == Failure(StatusRc) /\ StatusDiagRead /\ StatusStates # <<>>
    IN /\ output.err.type = "DatabaseError"
            <=> (firstDecides /\ StatusStates[1] \notin input.ignore)
       /\ output.err.type = "DatabaseError" => output.err.state = StatusStates[1]
       /\ output.err.type = "InterfaceError"
            <=> (StatusRc \notin {SQL_SUCCESS, SQL_NO_DATA} /\ ~StatusDiagRead)
       /\ ~Raised(output.err) =>
            output.sqlState =
              IF StatusRc = SQL_SUCCESS_WITH_INFO THEN StatusStates
              ELSE IF firstDecides THEN <<StatusStates[1]>>
              ELSE <<>>

\* A failure whose first record is ignored and whose second is not: it does
\* not raise.
C4_Witness ==
  /\ StatusDone
  /\ StatusRc = SQL_ERROR
  /\ StatusDiagRead
  /\ Len(StatusStates) = 2
  /\ StatusStates[1] \in input.ignore
  /\ StatusStates[2] \notin input.ignore
  /\ ~Raised(output.err)

\* The one native call of a commit() or rollback().
EndTranDirection == IF IsOp("Connection.commit") THEN SQL_COMMIT ELSE SQL_ROLLBACK
IsEndTranOp == IsOp("Connection.commit") \/ IsOp("Connection.rollback")

SQL_PARAM_INPUT == 1
SQL_PARAM_INPUT_OUTPUT == 2
SQL_PARAM_OUTPUT == 4
SQL_C_BINARY == -2
SQL_LONGVARBINARY == -4
SQL_C_WCHAR == -8
SQL_WVARCHAR == -9
SQL_WLONGVARCHAR == -10
NUL == 0

\* Python values: None, str, bytearray, int (a buffer size), and the
\* OutParam / InOutParam objects of the api module.
PyNone == [kind |-> "None"]
PyInt(n) == [kind |-> "int", v |-> n]
PyStr(s) == [kind |-> "str", v |-> s]
PyBytes(b) == [kind |-> "bytearray", v |-> b]
OutParam(size) == [kind |-> "OutParam", size |-> size]
InOutParam(inValue, size) == [kind |-> "InOutParam", inValue |-> inValue, size |-> size]

Min(S) == CHOOSE x \in S : \A y \in S : x <= y
Max(S) == CHOOSE x \in S : \A y \in S : x >= y

\* s.encode('utf8') for code points below U+0800.
RECURSIVE encode(_)
encode(s) ==
  IF s = <<>> THEN <<>>
  ELSE LET c == Head(s)
       IN (IF c < 128 THEN <<c>> ELSE <<192 + (c \div 64), 128 + (c % 64)>>)
            \o encode(Tail(s))

\* unicode(b, 'utf8'): strict decoding, an ill-formed or cut sequence raises
\* UnicodeDecodeError (ok = FALSE).
RECURSIVE decode(_)
decode(b) ==
  IF b = <<>> THEN [ok |-> TRUE, v |-> <<>>]
  ELSE LET c == Head(b)
       IN IF c < 128
            THEN LET r == decode(Tail(b))
                 IN [ok |-> r.ok, v |-> IF r.ok THEN <<c>> \o r.v ELSE <<>>]
          ELSE IF c \in 194..223 /\ Len(b) >= 2 /\ b[2] \in 128..191
            THEN LET r == decode(SubSeq(b, 3, Len(b)))
                 IN [ok |-> r.ok,
                     v |-> IF r.ok THEN <<(c - 192) * 64 + (b[2] - 128)>> \o r.v ELSE <<>>]
          ELSE [ok |-> FALSE, v |-> <<>>]

\* ctypes buffers.  data is the written prefix of the buffer, the rest of
\* its size bytes is zero.  NullPtr is the argument None.
NullPtr == [kind |-> "NULL", size |-> 0, data |-> <<>>]
create_string_buffer(value, size) ==
  [kind |-> "c_char",
   size |-> IF size.kind = "None" THEN Len(value) + 1 ELSE size.v,
   data |-> value]
createBuffer(l) == [kind |-> "c_char", size |-> l, data |-> <<>>]
from_buffer(val) == [kind |-> "c_ubyte", size |-> Len(val), data |-> val]

\* s.raw.partition(b'\00')[0]
UpToNul(b) ==
  LET S == {i \in 1..Len(b) : b[i] = NUL}
  IN IF S = {} THEN b ELSE SubSeq(b, 1, Min(S) - 1)

inputStrNoneAsEmpty(s, l) ==
  create_string_buffer(IF s.kind = "None" THEN <<>> ELSE encode(s.v), l)
inputStr(s, l) ==
  IF s.kind = "None" THEN NullPtr ELSE create_string_buffer(encode(s.v), l)
\* str(s) of a value that is not a string: of the parameter objects of the
\* api module, a text that names the object (one character here).
str(s) == IF s.kind = "str" THEN s.v ELSE <<79>>
convertParam(s) ==
  IF s.kind = "None" THEN PyNone ELSE PyBytes(encode(str(s)))

\* _outputStr: only a c_char buffer has .raw; on None and on a c_ubyte
\* array the attribute access raises.
outputStr(s) ==
  IF s.kind # "c_char" THEN [exc |-> "AttributeError", v |-> <<>>]
  ELSE LET d == decode(UpToNul(s.data))
       IN IF d.ok THEN [exc |-> "none", v |-> d.v]
                  ELSE [exc |-> "UnicodeDecodeError", v |-> <<>>]

(***************************************************************************)
(* A cursor operation is the sequence of steps its code takes when every   *)
(* native call succeeds: the native calls in program order, and a "raise"  *)
(* step where the code itself raises.  RunSteps cuts it where it stops.    *)
(***************************************************************************)
PyBool(b) == [kind |-> "bool", v |-> b]
Truthy(x) ==
  CASE x.kind = "bool" -> x.v
    [] x.kind = "int" -> x.v # 0
    [] OTHER -> FALSE

Native(fn, arg, n) == [fn |-> fn, arg |-> arg, n |-> n]
RaiseStep(type, state) == [fn |-> "raise", type |-> type, state |-> state]
\* SQLBindParameter: rows are the input rows the bind carries, buf the
\* bound buffer with bufSize bytes per row, lengths the length/indicator
\* of each row; registers tells that setValueFunc was called with a
\* resolver just before the bind.
BindStep(rows, ordinal, ioType, valueType, paramType, columnSize, buf, bufSize, lengths, registers) ==
  [fn |-> "SQLBindParameter", rows |-> rows, ordinal |-> ordinal,
   ioType |-> ioType, valueType |-> valueType, paramType |-> paramType,
   columnSize |-> columnSize, buf |-> buf, bufSize |-> bufSize,
   lengths |-> lengths, registers |-> registers]
ExecuteStep(rows) == [fn |-> "SQLExecute", rows |-> rows]

RECURSIVE Concat(_)
Concat(ss) == IF ss = <<>> THEN <<>> ELSE Head(ss) \o Concat(Tail(ss))

\* _free (lines 603-607) and _setQueryTimeout (lines 380-382)
free == <<Native("SQLFreeStmt", "SQL_CLOSE", 0),
          Native("SQLFreeStmt", "SQL_RESET_PARAMS", 0)>>
setQueryTimeout(queryTimeout) ==
  <<Native("SQLSetStmtAttr", "SQL_ATTR_QUERY_TIMEOUT", queryTimeout)>>

\* _handleResults (lines 557-594); the return code of SQLColAttributeW is
\* not the one handed to checkStatus after it.
handleResults(columnCount) ==
  <<Native("SQLNumResultCols", "", 0), Native("SQLRowCount", "", 0)>>
    \o Concat([col \in 1..columnCount |->
                 <<Native("SQLDescribeColW", "", col),
                   Native("SQLColAttributeW", "SQL_DESC_TYPE_NAME", col)>>])

\* Per-row mode, lines 435-470: the binds of row p from parameter paramNum
\* on.  valueType and paramType are the variables set at lines 433-434,
\* before the loop over the parameters.
RECURSIVE bindRow(_, _, _, _, _, _)
bindRow(p, row, dataTypes, paramNum, valueType, paramType) ==
  IF paramNum > Len(dataTypes) THEN <<>>
  ELSE
    LET val == p[paramNum]
        isBytes == val.kind = "bytearray"
        isOut == val.kind \in {"InOutParam", "OutParam"}
        size == IF val.size.kind = "None" THEN PyInt(SMALL_BUFFER_SIZE) ELSE val.size
        param == CASE val.kind = "InOutParam" -> inputStr(val.inValue, size)
                   [] val.kind = "OutParam" -> createBuffer(size.v)
                   [] isBytes -> from_buffer(val.v)
                   [] OTHER -> inputStr(val, PyNone)
        inputOutputType == CASE val.kind = "InOutParam" -> SQL_PARAM_INPUT_OUTPUT
                             [] val.kind = "OutParam" -> SQL_PARAM_OUTPUT
                             [] OTHER -> SQL_PARAM_INPUT
        vt == IF isBytes THEN SQL_C_BINARY ELSE valueType
        pt == IF isBytes THEN SQL_LONGVARBINARY
              ELSE IF dataTypes[paramNum] = SQL_WLONGVARCHAR THEN SQL_WLONGVARCHAR
              ELSE paramType
        bufSize == IF isBytes THEN Len(val.v)
                   ELSE IF param.kind # "NULL" THEN param.size ELSE 0
        length == IF isBytes THEN Len(val.v)
                  ELSE IF param.kind # "NULL" THEN SQL_NTS ELSE SQL_NULL_DATA
        columnSize == IF param.kind = "NULL" THEN 0 ELSE param.size
    IN <<BindStep(<<row>>, paramNum, inputOutputType, vt, pt, columnSize, param,
                  bufSize, <<length>>, isOut)>>
         \o bindRow(p, row, dataTypes, paramNum + 1, vt, pt)

rowMismatchShortOnly(p, numParams) == Len(p) < numParams
\* lines 429 and 502
rowMismatch(p, numParams) == Len(p) # numParams
PARAMS_MISMATCH == RaiseStep("InterfaceError", "PARAMS_MISMATCH")

\* Per-row mode, lines 426-473: rows paramSetNum.. of params
RECURSIVE executeRows(_, _, _, _)
executeRows(params, paramSetNum, numParams, dataTypes) ==
  IF paramSetNum > Len(params) THEN <<>>
  ELSE IF rowMismatch(params[paramSetNum], numParams) THEN <<PARAMS_MISMATCH>>
  ELSE bindRow(params[paramSetNum], paramSetNum, dataTypes, 1, SQL_C_WCHAR, SQL_WVARCHAR)
         \o <<ExecuteStep(<<paramSetNum>>)>>
         \o executeRows(params, paramSetNum + 1, numParams, dataTypes)

\* Columnar mode, lines 534-547: the writes into the array of one ordinal,
\* in program order, as <<index, byte>> pairs (index from 0).  p holds the
\* converted values of the column, maxLen the stride.
rowWrites(p, paramSetNum, maxLen, binary) ==
  LET index == (paramSetNum - 1) * maxLen
      v == p[paramSetNum]
  IN IF v.kind # "None"
       THEN [k \in 1..Len(v.v) |-> <<index + k - 1, v.v[k]>>]
              \o (IF binary THEN <<>> ELSE <<<<index + Len(v.v), NUL>>>>)
       ELSE <<<<index, NUL>>>>

\* ctypes item assignment: an index outside the array raises IndexError.
RECURSIVE store(_, _)
store(arr, writes) ==
  IF writes = <<>> THEN [ok |-> TRUE, arr |-> arr]
  ELSE LET w == Head(writes)
       IN IF w[1] + 1 \in 1..Len(arr)
            THEN store([arr EXCEPT ![w[1] + 1] = w[2]], Tail(writes))
            ELSE [ok |-> FALSE, arr |-> arr]

\* Columnar mode, lines 504-551: the bind of ordinal paramNum.
batchColumn(params, paramNum, dataType) ==
  LET paramSetSize == Len(params)
      binary == \E r \in 1..paramSetSize : params[r][paramNum].kind = "bytearray"
      p == [r \in 1..paramSetSize |->
              IF params[r][paramNum].kind = "bytearray" THEN params[r][paramNum]
              ELSE convertParam(params[r][paramNum])]
      longest == Max({0} \cup {Len(p[r].v) : r \in {q \in 1..paramSetSize : p[q].kind # "None"}})
      maxLen == IF binary THEN longest ELSE longest + 1
      valueType == IF binary THEN SQL_C_BINARY ELSE SQL_C_WCHAR
      paramType == IF binary THEN SQL_LONGVARBINARY
                   ELSE IF dataType = SQL_WLONGVARCHAR THEN SQL_WLONGVARCHAR
                   ELSE SQL_WVARCHAR
      filled == store([i \in 1..(paramSetSize * maxLen) |-> NUL],
                      Concat([r \in 1..paramSetSize |-> rowWrites(p, r, maxLen, binary)]))
      lengths == [r \in 1..paramSetSize |->
                    IF p[r].kind = "None" THEN SQL_NULL_DATA
                    ELSE IF binary THEN Len(p[r].v) ELSE SQL_NTS]
  IN IF ~filled.ok THEN RaiseStep("IndexError", "")
     ELSE BindStep([r \in 1..paramSetSize |-> r], paramNum, SQL_PARAM_INPUT,
                   valueType, paramType, maxLen,
                   [kind |-> IF binary THEN "c_ubyte" ELSE "c_char",
                    size |-> paramSetSize * maxLen, data |-> filled.arr],
                   maxLen, lengths, FALSE)

\* _executeManyBatch (lines 477-555)
executeManyBatch(params, numParams, dataTypes) ==
  <<Native("SQLSetStmtAttr", "SQL_ATTR_PARAM_BIND_TYPE", 0),
    Native("SQLSetStmtAttr", "SQL_ATTR_PARAMSET_SIZE", Len(params))>>
    \o (IF \E r \in 1..Len(params) : rowMismatch(params[r], numParams)
          THEN <<PARAMS_MISMATCH>>
          ELSE [paramNum \in 1..numParams |->
                  batchColumn(params, paramNum, dataTypes[paramNum])]
                 \o <<ExecuteStep([r \in 1..Len(params) |-> r])>>)

\* Preparation, lines 398-417
prepare(numParams, queryTimeout) ==
  free \o <<Native("SQLPrepareW", "", 0)>> \o setQueryTimeout(queryTimeout)
       \o <<Native("SQLNumParams", "", 0)>>
       \o [paramNum \in 1..numParams |-> Native("SQLDescribeParam", "", paramNum)]

\* executemany (lines 397-475).  numParams, dataTypes and columnCount are
\* what the driver reports for the prepared statement.
executemany(params, batch, queryTimeout, numParams, dataTypes, columnCount) ==
  prepare(numParams, queryTimeout)
    \o (IF Truthy(batch)
          THEN executeManyBatch(params, numParams, dataTypes)
          ELSE <<Native("SQLSetStmtAttr", "SQL_ATTR_PARAMSET_SIZE", 1)>>
                 \o executeRows(params, 1, numParams, dataTypes))
    \o handleResults(columnCount)

\* execute (lines 384-395): the timeout is the third positional argument
\* of executemany.
execute(params, queryTimeout, numParams, dataTypes, columnCount) ==
  (IF params # <<>>
     THEN executemany(<<params>>, PyInt(queryTimeout), 0, numParams, dataTypes, columnCount)
     ELSE free \o setQueryTimeout(queryTimeout) \o <<Native("SQLExecDirectW", "", 0)>>)
    \o handleResults(columnCount)

\* callproc (lines 360-369): the statement has one placeholder per
\* parameter.
callproc(params, queryTimeout, dataTypes, columnCount) ==
  execute(params, queryTimeout, Len(params), dataTypes, columnCount)

\* The steps taken when the call at position failAt (0: none) has outcome
\* o and all others succeed: up to the first check that raises, or to the
\* first raise step.  Each call carries its return code and the states of
\* the diagnostic records it left.
RunSteps(steps, failAt, o) ==
  LET raises == {i \in 1..Len(steps) : steps[i].fn = "raise"}
      r == IF raises = {} THEN Len(steps) + 1 ELSE Min(raises)
      hit == failAt \in 1..(r - 1)
      chk == IF hit /\ steps[failAt].fn # "SQLColAttributeW"
               THEN checkStatus(o, steps[failAt].fn, {}).err
               ELSE NoErr
      last == IF Raised(chk) THEN failAt ELSE r - 1
  IN [calls |-> [i \in 1..last |->
                   steps[i] @@ [rc |-> IF hit /\ i = failAt THEN o.rc ELSE SQL_SUCCESS,
                                states |-> IF hit /\ i = failAt THEN States(o.recs) ELSE <<>>]],
      err |-> IF Raised(chk) THEN chk
              ELSE IF r <= Len(steps) THEN Err(steps[r].type, steps[r].state, "")
              ELSE NoErr]

\* The driver's part of a successful SQLExecute for an output or
\* input/output parameter: the value and its terminator at the start of
\* the bound buffer.
DriverWrite(buf, value) ==
  [buf EXCEPT !.data = value \o <<NUL>> \o SubSeq(buf.data, Len(value) + 2, Len(buf.data))]

\* What the resolvers registered at lines 442 and 446 return when they are
\* called after the execute: both lambdas read the variable param of
\* executemany when they are called, which then holds the buffer of the
\* last parameter that was bound.  written[i] is the text the driver
\* assigns to the parameter of ordinal i.
Resolved(cs, written) ==
  LET binds == {i \in 1..Len(cs) : cs[i].fn = "SQLBindParameter"}
      executed == \E i \in 1..Len(cs) : cs[i].fn = "SQLExecute" /\ Succeeded(cs[i].rc)
      last == cs[Max(binds)]
      param == IF executed /\ last.ioType \in {SQL_PARAM_INPUT_OUTPUT, SQL_PARAM_OUTPUT}
                 THEN DriverWrite(last.buf, encode(written[last.ordinal]))
                 ELSE last.buf
  IN [n \in {cs[i].ordinal : i \in {j \in binds : cs[j].registers}} |-> outputStr(param)]

OutParamsAlways(r, written) ==
  [returned |-> TRUE, resolved |-> Resolved(r.calls, written)]

\* Line 369: the OutParams object callproc returns when execute returned;
\* building it calls the resolver of every output and input/output
\* parameter.  When execute raised, line 369 is not reached.
OutParams(r, written) ==
  IF Raised(r.err)
    THEN [returned |-> FALSE, resolved |-> <<>>]
    ELSE [returned |-> TRUE, resolved |-> Resolved(r.calls, written)]

(***************************************************************************)
(* SpecBind: executemany in both modes on every list of up to MaxRows rows *)
(* of up to MaxParams plain values, and callproc on every list of up to    *)
(* MaxCallParams plain, output and input/output parameters, against every  *)
(* parameter description of the driver, with at most one native call       *)
(* failing.                                                                 *)
(***************************************************************************)
MaxRows == 2
MaxParams == 2
MaxCallParams == 2

PlainValues == {PyNone, PyStr(<<>>), PyStr(<<97>>), PyBytes(<<>>), PyBytes(<<98>>)}
CallValues ==
  PlainValues \cup {OutParam(PyNone), InOutParam(PyStr(<<97>>), PyNone)}
WrittenTexts == {<<120>>, <<121>>}
DataTypes == {SQL_WVARCHAR, SQL_WLONGVARCHAR}
SeqsOfLen(S, n) == {s \in SeqsUpTo(S, n) : Len(s) = n}

ExecutemanyInputs ==
  [fn : {"executemany"},
   params : SeqsUpTo(SeqsUpTo(PlainValues, MaxParams), MaxRows) \ {<<>>},
   batch : {PyBool(FALSE), PyBool(TRUE)},
   queryTimeout : {0},
   dataTypes : SeqsUpTo(DataTypes, MaxParams),
   columnCount : {0}]

Timeouts == {0, 30}

CallprocInputs ==
  UNION {[fn : {"callproc"}, params : {p}, queryTimeout : Timeouts,
          dataTypes : SeqsOfLen(DataTypes, Len(p)),
          written : [1..Len(p) -> WrittenTexts],
          columnCount : {0}] : p \in SeqsUpTo(CallValues, MaxCallParams)}

InitBind ==
  /\ LifeInit
  /\ input \in ExecutemanyInputs \cup CallprocInputs
  /\ output = Pending

ExecutemanySteps(in) ==
  executemany(in.params, in.batch, in.queryTimeout, Len(in.dataTypes), in.dataTypes,
              in.columnCount)
CallprocSteps(in) ==
  callproc(in.params, in.queryTimeout, in.dataTypes, in.columnCount)

ApplyExecutemany ==
  /\ input.fn = "executemany"
  /\ output = Pending
  /\ \E failAt \in 0..Len(ExecutemanySteps(input)), o \in Outcomes3 :
       output' = RunSteps(ExecutemanySteps(input), failAt, o)
  /\ UNCHANGED <<lifeVars, threadVars, calls, lastOp, input>>

ApplyCallproc ==
  /\ input.fn = "callproc"
  /\ output = Pending
  /\ \E failAt \in 0..Len(CallprocSteps(input)), o \in Outcomes3 :
       LET r == RunSteps(CallprocSteps(input), failAt, o)
           ret == OutParams(r, input.written)
       IN output' = [calls |-> r.calls, err |-> r.err,
                     returned |-> ret.returned, resolved |-> ret.resolved]
  /\ UNCHANGED <<lifeVars, threadVars, calls, lastOp, input>>

NextBind == ApplyExecutemany \/ ApplyCallproc

SpecBind == InitBind /\ [][NextBind]_vars

(***************************************************************************)
(* rowIterator (lines 612-655).  The working buffer is a sequence of       *)
(* bufSize bytes that every SQLGetData call of the iterator overwrites     *)
(* from its start.  As for the lifecycle operations, every operator gives  *)
(* the set of the results the driver allows.                                *)
(***************************************************************************)
Overwrite(buf, bytes) ==
  [i \in 1..Len(buf) |-> IF i <= Len(bytes) THEN bytes[i] ELSE buf[i]]

\* Where the driver may cut a value of which bytes are left when room
\* bytes fit: after room bytes; for text a driver may also cut earlier, at
\* the last character boundary, when that leaves it a character to deliver.
Cuts(bytes, binary, room) ==
  IF Len(bytes) <= room THEN {Len(bytes)}
  ELSE {room} \cup (IF binary THEN {}
                    ELSE {n \in 1..room : /\ bytes[n + 1] \notin 128..191
                                          /\ \A m \in (n + 1)..room :
                                               bytes[m + 1] \in 128..191})

\* The driver's SQLGetData on a column of which rem is still to be
\* delivered (PyNone for a NULL column): it fills the buffer, for text up
\* to the terminator it adds; when more remains it reports 01004 with
\* SQL_SUCCESS_WITH_INFO.  length is what remained before the call.
SQLGetData(rem, binary, buf) ==
  IF rem.kind = "None"
    THEN {[rc |-> SQL_SUCCESS, recs |-> <<>>, length |-> SQL_NULL_DATA,
           buf |-> buf, rem |-> rem]}
    ELSE LET room == IF binary THEN Len(buf) ELSE Len(buf) - 1
             truncated == Len(rem.v) > room
         IN {[rc |-> IF truncated THEN SQL_SUCCESS_WITH_INFO ELSE SQL_SUCCESS,
              recs |-> IF truncated THEN <<Diag(SQL_STATE_DATA_TRUNCATED)>> ELSE <<>>,
              length |-> Len(rem.v),
              buf |-> Overwrite(buf, IF binary THEN SubSeq(rem.v, 1, n)
                                     ELSE SubSeq(rem.v, 1, n) \o <<NUL>>),
              rem |-> PyBytes(SubSeq(rem.v, n + 1, Len(rem.v)))]
               : n \in Cuts(rem.v, binary, room)}

GetDataCall(col, target, r) ==
  [fn |-> "SQLGetData", col |-> col, target |-> target, rc |-> r.rc,
   states |-> States(r.recs), length |-> r.length]
GetDataState(r, method) ==
  checkStatus(Outcome(r.rc, r.recs, SQL_NO_DATA), method, {}).sqlState
CharBuf(buf) == [kind |-> "c_char", size |-> Len(buf), data |-> buf]

\* A column read: the calls issued, the value decoded (or the exception
\* raised while decoding) and the working buffer afterwards.
Column(cs, val, exc, buf) == [calls |-> cs, val |-> val, exc |-> exc, buf |-> buf]

\* lines 644-648: the continuation calls of a text column; val is the list
\* of the chunks decoded so far.  A chunk that does not decode raises out
\* of the loop.
RECURSIVE textContinuation(_, _, _, _, _, _)
textContinuation(col, rem, buf, sqlState, cs, val) ==
  IF ~InSeq(SQL_STATE_DATA_TRUNCATED, sqlState)
    THEN {Column(cs, PyStr(Concat(val)), "none", buf)}
    ELSE UNION {
           LET chunk == outputStr(CharBuf(r.buf))
               cs2 == Append(cs, GetDataCall(col, "buf", r))
           IN IF chunk.exc # "none"
                THEN {Column(cs2, PyNone, chunk.exc, r.buf)}
                ELSE textContinuation(col, r.rem, r.buf, GetDataState(r, "SQLGetData2"),
                                      cs2, Append(val, chunk.v))
           : r \in SQLGetData(rem, FALSE, buf)}

\* lines 636-641: the continuation of a binary column.  val is a bytearray
\* of the reported length, its first bufSize bytes are the working buffer
\* and the one continuation call writes into the rest.
\* The continuation call carries where its target starts in val and how
\* many bytes it takes (lines 638-640).
binaryContinuationPrefixLost(col, r, cs) ==
  LET bufSize == Len(r.buf)
      newBufSize == r.length - bufSize
  IN {Column(Append(cs, GetDataCall(col, "newBuffer", r2)
                          @@ [offset |-> bufSize, size |-> newBufSize]),
             PyBytes([i \in 1..bufSize |-> NUL] \o r2.buf), "none", r.buf)
        : r2 \in SQLGetData(r.rem, TRUE, [i \in 1..newBufSize |-> NUL])}

binaryContinuation(col, r, cs) ==
  LET bufSize == Len(r.buf)
      newBufSize == r.length - bufSize
  IN {Column(Append(cs, GetDataCall(col, "newBuffer", r2)
                          @@ [offset |-> bufSize, size |-> newBufSize]),
             PyBytes(r.buf \o r2.buf), "none", r.buf)
        : r2 \in SQLGetData(r.rem, TRUE, [i \in 1..newBufSize |-> NUL])}

\* lines 625-654: one column of the current row.  stored is the column's
\* value in the result set.
getColumn(col, stored, binary, buf) ==
  LET rem == CASE stored.kind = "None" -> PyNone
               [] stored.kind = "str" -> PyBytes(encode(stored.v))
               [] OTHER -> stored
  IN UNION {
       LET sqlState == GetDataState(r, "SQLGetData")
           cs == <<GetDataCall(col, "buf", r)>>
           first == outputStr(CharBuf(r.buf))
       IN IF r.length = SQL_NULL_DATA
            THEN {Column(cs, PyNone, "none", r.buf)}
          ELSE IF InSeq(SQL_STATE_DATA_TRUNCATED, sqlState)
            THEN IF binary THEN binaryContinuation(col, r, cs)
                 ELSE IF first.exc # "none" THEN {Column(cs, PyNone, first.exc, r.buf)}
                 ELSE textContinuation(col, r.rem, r.buf, sqlState, cs, <<first.v>>)
          ELSE IF binary
            THEN {Column(cs, PyBytes(SubSeq(r.buf, 1, r.length)), "none", r.buf)}
          ELSE {Column(cs, IF first.exc = "none" THEN PyStr(first.v) ELSE PyNone,
                       first.exc, r.buf)}
       : r \in SQLGetData(rem, binary, buf)}

\* lines 624-654: the columns col.. of the current row, after the calls cs
\* and the values decoded so far
RECURSIVE getColumns(_, _, _, _, _, _)
getColumns(col, row, description, buf, cs, values) ==
  IF col > Len(description)
    THEN {[calls |-> cs, values |-> values, exc |-> "none", buf |-> buf]}
    ELSE UNION {
           IF c.exc # "none"
             THEN {[calls |-> cs \o c.calls, values |-> values, exc |-> c.exc, buf |-> c.buf]}
             ELSE getColumns(col + 1, row, description, c.buf, cs \o c.calls,
                             Append(values, c.val))
           : c \in getColumn(col, row[col], description[col], buf)}

\* lines 617-655: the iterator run to its end over the rows the result set
\* still holds, after the calls cs and the rows yielded so far.
RECURSIVE iterate(_, _, _, _, _)
iterate(resultSet, description, buf, cs, rows) ==
  IF resultSet = <<>>
    THEN {[calls |-> Append(cs, Native("SQLFetch", "", 0) @@ [rc |-> SQL_NO_DATA]),
           rows |-> rows, err |-> NoErr]}
    ELSE UNION {
           IF row.exc # "none"
             THEN {[calls |-> row.calls, rows |-> rows,
                    err |-> Err(row.exc, "", "rowIterator")]}
             ELSE iterate(Tail(resultSet), description, row.buf, row.calls,
                          Append(rows, row.values))
           : row \in getColumns(1, Head(resultSet), description, buf,
                                Append(cs, Native("SQLFetch", "", 0) @@ [rc |-> SQL_SUCCESS]),
                                <<>>)}

rowIterator(resultSet, description, bufSize) ==
  iterate(resultSet, description, [i \in 1..bufSize |-> NUL], <<>>, <<>>)

(***************************************************************************)
(* SpecFetch: the iterator run over every result set of up to MaxFetchRows *)
(* rows and MaxCols columns, text or binary, whose values are NULL or take *)
(* up to MaxFetchLen bytes, with every working buffer of 2..MaxBufSize     *)
(* bytes (LARGE_BUFFER_SIZE scaled down).  Texts are made of U+0061 (one   *)
(* byte in UTF-8) and U+00E9 (two bytes); a binary value is 7, 8, 9, ...   *)
(***************************************************************************)
MaxFetchRows == 2
MaxCols == 2
MaxFetchLen == 3
MaxBufSize == 3

CodePoints == {97, 233}
StoredTexts ==
  {PyStr(t) : t \in {s \in SeqsUpTo(CodePoints, MaxFetchLen) : Len(encode(s)) <= MaxFetchLen}}
\* Binary values whose bytes all differ, so that the order of the parts of
\* a value shows.
StoredBytes == {PyBytes([i \in 1..n |-> 6 + i]) : n \in 0..MaxFetchLen}
Stored(binary) == {PyNone} \cup (IF binary THEN StoredBytes ELSE StoredTexts)

RowsOf(description) ==
  {row \in SeqsOfLen({PyNone} \cup StoredBytes \cup StoredTexts, Len(description)) :
     \A col \in DOMAIN description : row[col] \in Stored(description[col])}

FetchInputs ==
  UNION {[fn : {"fetch"}, description : {d},
          resultSet : SeqsUpTo(RowsOf(d), MaxFetchRows),
          bufSize : 2..MaxBufSize] : d \in SeqsUpTo(BOOLEAN, MaxCols) \ {<<>>}}

InitFetch ==
  /\ LifeInit
  /\ input \in FetchInputs
  /\ output = Pending

ApplyFetch ==
  /\ input.fn = "fetch"
  /\ output = Pending
  /\ \E r \in rowIterator(input.resultSet, input.description, input.bufSize) : output' = r
  /\ UNCHANGED <<lifeVars, threadVars, calls, lastOp, input>>

NextFetch == ApplyFetch

SpecFetch == InitFetch /\ [][NextFetch]_vars

(***************************************************************************)
(* SpecData: the binder and the iterator together.                          *)
(***************************************************************************)
InitData == InitBind \/ InitFetch

NextData == NextBind \/ NextFetch

SpecData == InitData /\ [][NextData]_vars

(***************************************************************************)
(* Properties of the binder and of the iterator.                            *)
(***************************************************************************)
ExecutemanyDone == input.fn = "executemany" /\ output # Pending
CallprocDone == input.fn = "callproc" /\ output # Pending
FetchDone == input.fn = "fetch" /\ output # Pending

\* The rows of an executemany whose argument count is not the statement's.
BadRows == {r \in DOMAIN input.params : Len(input.params[r]) # Len(input.dataTypes)}
IsBind(c) == c.fn = "SQLBindParameter"
Marshals(c) == c.fn \in {"SQLBindParameter", "SQLExecute"}
AllSucceeded == \A i \in DOMAIN output.calls : output.calls[i].rc = SQL_SUCCESS
IsEmpty(v) == v.kind \in {"str", "bytearray"} /\ v.v = <<>>

\* What the driver reads for the j-th row of a bind: the bytes of the
\* row's slot of bufSize bytes, up to the terminator for SQL_NTS and up to
\* the length otherwise; nothing for SQL_NULL_DATA.
ElementValue(c, j) ==
  LET slot == [k \in 1..c.bufSize |->
                 LET i == (j - 1) * c.bufSize + k
                 IN IF i <= Len(c.buf.data) THEN c.buf.data[i] ELSE NUL]
  IN IF c.lengths[j] = SQL_NULL_DATA THEN <<>>
     ELSE IF c.lengths[j] = SQL_NTS THEN UpToNul(slot)
     ELSE SubSeq(slot, 1, c.lengths[j])

\* What the calls cs deliver to the driver: for each row and ordinal, its
\* null-ness, its element type and its value.
Delivered(cs) ==
  UNION {{[row |-> cs[i].rows[j], ordinal |-> cs[i].ordinal,
           null |-> cs[i].lengths[j] = SQL_NULL_DATA,
           valueType |-> cs[i].valueType,
           value |-> ElementValue(cs[i], j)] : j \in DOMAIN cs[i].rows}
         : i \in {k \in DOMAIN cs : IsBind(cs[k])}}

\* C6: when a row of executemany has an argument count other than the
\* statement's parameter count, no SQLBindParameter and no SQLExecute is
\* issued for that row or a later one in per-row mode, none at all in
\* batched mode, the call raises, and unless a native call failed first the
\* error is the PARAMS_MISMATCH interface error; that error is raised for no
\* other reason.
C6_NoBindOnMismatch ==
  ExecutemanyDone =>
    /\ BadRows # {} =>
         /\ \A i \in DOMAIN output.calls :
              Marshals(output.calls[i]) =>
                /\ ~Truthy(input.batch)
                /\ \A j \in DOMAIN output.calls[i].rows :
                     output.calls[i].rows[j] < Min(BadRows)
         /\ Raised(output.err)
         /\ output.err.type # "DatabaseError" =>
              output.err = Err("InterfaceError", "PARAMS_MISMATCH", "")
    /\ output.err.state = "PARAMS_MISMATCH" => BadRows # {}

\* Per-row mode, two rows, the second one too short or too long: the first
\* row was bound and executed, then the mismatch was raised.
C6_Witness ==
  /\ ExecutemanyDone
  /\ ~Truthy(input.batch)
  /\ Len(input.dataTypes) = 2
  /\ BadRows = {2}
  /\ output.err = Err("InterfaceError", "PARAMS_MISMATCH", "")
  /\ \E i \in DOMAIN output.calls :
       output.calls[i].fn = "SQLExecute" /\ output.calls[i].rows = <<1>>

\* C7: for rows of the right argument count, when executemany succeeds in
\* one mode it succeeds in the other mode too and both deliver to the driver
\* the same value, null-ness and element type for every row and ordinal.
C7_BatchEqualsPerRow ==
  (ExecutemanyDone /\ BadRows = {} /\ AllSucceeded /\ ~Raised(output.err)) =>
    LET other == RunSteps(executemany(input.params, PyBool(~Truthy(input.batch)),
                                      input.queryTimeout, Len(input.dataTypes),
                                      input.dataTypes, input.columnCount), 0, Ok)
    IN /\ ~Raised(other.err)
       /\ Delivered(other.calls) = Delivered(output.calls)

\* C8: the iterator yields every row of the result set and every text
\* column of it with the value stored, for every value and buffer size.
C8_TextRoundTrip ==
  FetchDone =>
    /\ ~Raised(output.err)
    /\ Len(output.rows) = Len(input.resultSet)
    /\ \A r \in DOMAIN output.rows : \A col \in DOMAIN input.description :
         ~input.description[col] => output.rows[r][col] = input.resultSet[r][col]

\* C9: every bind of a None value carries the length SQL_NULL_DATA, and no
\* other bind does: an empty text or byte value is bound with a non-null
\* length and read by the driver as the empty value, in per-row and in
\* batched mode; and every row the iterator yields holds None exactly in the
\* columns that are NULL in the result set, and the empty text or byte
\* string where the stored value is empty.
C9_NullIsNotEmpty ==
  /\ (ExecutemanyDone \/ CallprocDone) =>
       \A i \in DOMAIN output.calls :
         IsBind(output.calls[i]) =>
           \A j \in DOMAIN output.calls[i].rows :
             LET c == output.calls[i]
                 v == IF input.fn = "callproc" THEN input.params[c.ordinal]
                      ELSE input.params[c.rows[j]][c.ordinal]
             IN /\ c.lengths[j] = SQL_NULL_DATA <=> v.kind = "None"
                /\ IsEmpty(v) => ElementValue(c, j) = <<>>
  /\ FetchDone =>
       \A r \in DOMAIN output.rows : \A col \in DOMAIN input.description :
         /\ output.rows[r][col].kind = "None" <=> input.resultSet[r][col].kind = "None"
         /\ IsEmpty(input.resultSet[r][col]) =>
              output.rows[r][col] = input.resultSet[r][col]

\* Batched mode, a column holding None in one row and the empty text in
\* another: one bind carries the null length for the first and SQL_NTS for
\* the second.
C9_Witness ==
  /\ ExecutemanyDone
  /\ Truthy(input.batch)
  /\ \E i \in DOMAIN output.calls :
       /\ IsBind(output.calls[i])
       /\ output.calls[i].lengths = <<SQL_NULL_DATA, SQL_NTS>>
       /\ input.params[1][output.calls[i].ordinal].kind = "None"
       /\ IsEmpty(input.params[2][output.calls[i].ordinal])

\* C10: after a callproc whose native calls all succeeded, the resolver of
\* each output or input/output parameter returns the text the driver
\* assigned to the parameter of that ordinal.
C10_ResolverReadsOwnBuffer ==
  (CallprocDone /\ AllSucceeded /\ ~Raised(output.err)) =>
    \A n \in DOMAIN input.params :
      input.params[n].kind \in {"OutParam", "InOutParam"} =>
        /\ n \in DOMAIN output.resolved
        /\ output.resolved[n] = [exc |-> "none", v |-> input.written[n]]

\* The position in the calls of an operation of its native execute call.
ExecuteIdx ==
  {i \in DOMAIN output.calls : output.calls[i].fn \in {"SQLExecute", "SQLExecDirectW"}}
RegisterIdx ==
  {i \in DOMAIN output.calls : IsBind(output.calls[i]) /\ output.calls[i].registers}

QUERY_TIMEOUT == 120

ExecuteParams == {<<>>, <<PyStr(<<97>>)>>, <<PyStr(<<97>>), PyNone>>}
TextTypes(n) == [i \in 1..n |-> SQL_WVARCHAR]
ColumnCounts == {0, 1}

ExecuteInputs ==
  UNION {[fn : {"execute"}, params : {p}, queryTimeout : Timeouts,
          dataTypes : {TextTypes(Len(p))}, columnCount : ColumnCounts]
         : p \in ExecuteParams}

SetupInputs ==
  [fn : {"setup"}, params : {<<>>}, queryTimeout : {QUERY_TIMEOUT},
   dataTypes : {<<>>}, columnCount : ColumnCounts]

TimedExecutemanyInputs ==
  UNION {[fn : {"executemany"}, params : {<<p>>, <<p, p>>},
          batch : {PyBool(FALSE), PyBool(TRUE)}, queryTimeout : Timeouts,
          dataTypes : {TextTypes(Len(p))}, columnCount : ColumnCounts]
         : p \in ExecuteParams \ {<<>>}}

TimedCallprocInputs ==
  UNION {[fn : {"callproc"}, params : {p}, queryTimeout : Timeouts,
          dataTypes : {TextTypes(Len(p))}, written : {[i \in 1..Len(p) |-> <<120>>]},
          columnCount : ColumnCounts]
         : p \in ExecuteParams \cup {<<OutParam(PyNone)>>}}

InitExecute ==
  /\ LifeInit
  /\ input \in ExecuteInputs \cup SetupInputs \cup TimedExecutemanyInputs
                 \cup TimedCallprocInputs
  /\ output = Pending

ExecuteSteps(in) ==
  execute(in.params, in.queryTimeout, Len(in.dataTypes), in.dataTypes, in.columnCount)

\* cursor.execute(query, params, queryTimeout=...)
ApplyExecute ==
  /\ input.fn = "execute"
  /\ output = Pending
  /\ \E failAt \in 0..Len(ExecuteSteps(input)), o \in Outcomes3 :
       output' = RunSteps(ExecuteSteps(input), failAt, o)
  /\ UNCHANGED <<lifeVars, threadVars, calls, lastOp, input>>

\* c.execute(text, queryTimeout=QUERY_TIMEOUT) of lines 284 and 286
ApplySetupExecute ==
  /\ input.fn = "setup"
  /\ output = Pending
  /\ \E failAt \in 0..Len(ExecuteSteps(input)), o \in Outcomes3 :
       output' = RunSteps(execute(<<>>, QUERY_TIMEOUT, 0, <<>>, input.columnCount),
                          failAt, o)
  /\ UNCHANGED <<lifeVars, threadVars, calls, lastOp, input>>

NextExecute == ApplyExecute \/ ApplySetupExecute \/ ApplyExecutemany \/ ApplyCallproc

SpecExecute == InitExecute /\ [][NextExecute]_vars

StatementDone == input.fn \in {"execute", "setup", "executemany", "callproc"} /\ output # Pending
TimeoutIdx ==
  {i \in DOMAIN output.calls : /\ output.calls[i].fn = "SQLSetStmtAttr"
                               /\ output.calls[i].arg = "SQL_ATTR_QUERY_TIMEOUT"}

\* C12: when a native execute call is issued, the query-timeout attribute
\* was set before it, and the value it was last set to is the timeout the
\* caller gave the operation (120 for the setup path).
C12_TimeoutSetBeforeExecute ==
  StatementDone =>
    \A i \in ExecuteIdx :
      /\ \E t \in TimeoutIdx : t < i
      /\ output.calls[Max({t \in TimeoutIdx : t < i})].n = input.queryTimeout

(***************************************************************************)
(* SpecIter: the generator rowIterator driven one next() at a time.  The   *)
(* state of the generator object is kept in output: the rows the result    *)
(* set still holds, the working buffer, the native calls issued and the    *)
(* rows yielded so far, and whether the generator has finished (by         *)
(* leaving its loop or by raising).                                         *)
(***************************************************************************)
MaxStops == 2

FetchCall(o) == Native("SQLFetch", "", 0) @@ [rc |-> o.rc]
NoData == Outcome(SQL_NO_DATA, <<>>, SQL_NO_DATA)

\* What the driver may answer SQLFetch: the next row or a failure; past
\* the last row no-data or a failure.
FetchOutcomes(resultSet) ==
  (IF resultSet = <<>> THEN {NoData} ELSE {Ok})
    \cup {Outcome(SQL_ERROR, <<Diag("HY000")>>, SQL_NO_DATA)}

\* One pass through the loop body of lines 617-655, up to the yield, the
\* break or the exception that ends it.
nextRow(resultSet, description, buf) ==
  UNION {
    LET st == checkStatus(o, "SQLFetch", {})
    IN IF Raised(st.err)
         THEN {[calls |-> <<FetchCall(o)>>, yielded |-> FALSE, values |-> <<>>,
                err |-> st.err, finished |-> TRUE, buf |-> buf, rest |-> resultSet]}
       ELSE IF o.rc = SQL_NO_DATA
         THEN {[calls |-> <<FetchCall(o)>>, yielded |-> FALSE, values |-> <<>>,
                err |-> NoErr, finished |-> TRUE, buf |-> buf, rest |-> resultSet]}
       ELSE {[calls |-> row.calls, yielded |-> row.exc = "none", values |-> row.values,
              err |-> IF row.exc = "none" THEN NoErr ELSE Err(row.exc, "", "rowIterator"),
              finished |-> row.exc # "none", buf |-> row.buf, rest |-> Tail(resultSet)]
             : row \in getColumns(1, Head(resultSet), description, buf,
                                  <<FetchCall(o)>>, <<>>)}
    : o \in FetchOutcomes(resultSet)}

\* rowIterator(cursor): the generator object before its first next().
Created(in) ==
  [finished |-> FALSE, rest |-> in.resultSet, buf |-> [i \in 1..in.bufSize |-> NUL],
   calls |-> <<>>, rows |-> <<>>, err |-> NoErr, stops |-> 0]

IterInputs ==
  UNION {[fn : {"rowIterator"}, description : {d},
          resultSet : SeqsUpTo(RowsOf(d), MaxFetchRows),
          bufSize : 2..MaxBufSize] : d \in SeqsUpTo(BOOLEAN, MaxCols) \ {<<>>}}

InitIter ==
  /\ LifeInit
  /\ input \in IterInputs
  /\ output = Pending

\* next(iterator) on a generator that has not finished: it runs to the
\* next yield, or finishes.
Advance ==
  /\ input.fn = "rowIterator"
  /\ LET g == IF output = Pending THEN Created(input) ELSE output
     IN /\ ~g.finished
        /\ \E r \in nextRow(g.rest, input.description, g.buf) :
             output' = [finished |-> r.finished, rest |-> r.rest, buf |-> r.buf,
                        calls |-> g.calls \o r.calls,
                        rows |-> IF r.yielded THEN Append(g.rows, r.values) ELSE g.rows,
                        err |-> r.err, stops |-> g.stops]
  /\ UNCHANGED <<lifeVars, threadVars, calls, lastOp, input>>

\* next(iterator) on a finished generator: StopIteration, and its code
\* does not run.
AdvanceFinished ==
  /\ input.fn = "rowIterator"
  /\ output # Pending
  /\ output.finished
  /\ output.stops < MaxStops
  /\ output' = [output EXCEPT !.stops = @ + 1, !.err = NoErr]
  /\ UNCHANGED <<lifeVars, threadVars, calls, lastOp, input>>

NextIter == Advance \/ AdvanceFinished

SpecIter == InitIter /\ [][NextIter]_vars

IterStarted == input.fn = "rowIterator" /\ output # Pending
FetchIdx == {i \in DOMAIN output.calls : output.calls[i].fn = "SQLFetch"}

\* C13: whenever the iterator is not running it has yielded one row per
\* fetch call that returned a row; each row holds one value per described
\* column; no call follows a fetch that reported no-data; and a finished
\* iterator issues no further call and yields no further row.
C13_OneRowPerFetch ==
  /\ [](IterStarted =>
          /\ Len(output.rows) = Cardinality({i \in FetchIdx : output.calls[i].rc = SQL_SUCCESS})
          /\ \A r \in DOMAIN output.rows : Len(output.rows[r]) = Len(input.description)
          /\ \A i \in FetchIdx : output.calls[i].rc = SQL_NO_DATA => i = Len(output.calls))
  /\ [][(IterStarted /\ output.finished) =>
          (output'.calls = output.calls /\ output'.rows = output.rows)]_vars

(***************************************************************************)
(* SpecThreads: several threads calling init() and connect, one bytecode-  *)
(* level step at a time (lines 190-231 and 267-275).  The connection       *)
(* object a thread builds is kept in its own record.                        *)
(***************************************************************************)
lockAlwaysFree(l) == TRUE

\* threading.Lock: acquire() blocks until the lock is free.
lockFree(l) == l = 0

Critical ==
  {"libCheck", "libLoad", "envCheck", "envNew", "envAlloc", "envAttr", "initRelease",
   "handshake", "connRelease"}

restVars == <<hDbc, handshook, hStmt, cursors, connections, calls, lastOp, input, output>>

At(t, pc) == thread[t].pc = pc
Goto(t, pc) == thread' = [thread EXCEPT ![t].pc = pc]
Raise(t, pc, e) == thread' = [thread EXCEPT ![t].pc = pc, ![t].err = e]

\* A thread calls init() (line 225) or connect (line 234; it calls init at
\* line 268).
Start(t) ==
  /\ At(t, "idle")
  /\ thread[t].ops < MaxThreadOps
  /\ \E op \in {"init", "connect"} :
       thread' = [thread EXCEPT ![t].pc = "initAcquire", ![t].op = op, ![t].err = NoErr,
                                ![t].ops = @ + 1, ![t].result = "running",
                                ![t].hDbc = IF op = "connect" THEN "nullptr" ELSE "none"]
  /\ UNCHANGED <<odbc, hEnv, lock, natives, restVars>>

\* lock.acquire() of lines 227 and 271
Acquire(t) ==
  /\ thread[t].pc \in {"initAcquire", "connAcquire"}
  /\ lockFree(lock)
  /\ lock' = t
  /\ Goto(t, IF At(t, "initAcquire") THEN "libCheck" ELSE "handshake")
  /\ UNCHANGED <<odbc, hEnv, natives, restVars>>

\* line 193: if odbc is None
LibCheck(t) ==
  /\ At(t, "libCheck")
  /\ Goto(t, IF odbc = "None" THEN "libLoad" ELSE "envCheck")
  /\ UNCHANGED <<odbc, hEnv, lock, natives, restVars>>

\* lines 194-204: the library is loaded and assigned to odbc, or loading
\* it raises.
LibLoad(t) ==
  /\ At(t, "libLoad")
  /\ \/ /\ odbc' = "loaded"
        /\ natives' = [natives EXCEPT !.loads = @ + 1]
        /\ Goto(t, "envCheck")
     \/ /\ Raise(t, "initRelease", Err("OSError", "", "LoadLibrary"))
        /\ UNCHANGED <<odbc, natives>>
  /\ UNCHANGED <<hEnv, lock, restVars>>

\* line 209: if hEnv is None
EnvCheck(t) ==
  /\ At(t, "envCheck")
  /\ Goto(t, IF hEnv = "None" THEN "envNew" ELSE "initRelease")
  /\ UNCHANGED <<odbc, hEnv, lock, natives, restVars>>

\* line 210: hEnv = SQLPOINTER()
EnvNew(t) ==
  /\ At(t, "envNew")
  /\ hEnv' = "nullptr"
  /\ Goto(t, "envAlloc")
  /\ UNCHANGED <<odbc, lock, natives, restVars>>

\* lines 211-212
EnvAlloc(t) ==
  /\ At(t, "envAlloc")
  /\ \E o \in Outcomes3 :
       LET st == checkStatus(OnOutputHandle(o), "Method", {})
       IN /\ hEnv' = IF Succeeded(o.rc) THEN "allocated" ELSE hEnv
          /\ IF Raised(st.err) THEN Raise(t, "initRelease", st.err) ELSE Goto(t, "envAttr")
  /\ natives' = [natives EXCEPT !.envAllocs = @ + 1]
  /\ UNCHANGED <<odbc, lock, restVars>>

\* lines 213-217
EnvAttr(t) ==
  /\ At(t, "envAttr")
  /\ \E o \in IF hEnv = "allocated" THEN Outcomes3 ELSE {InvalidHandle} :
       LET st == checkStatus(o, "Method", {})
       IN /\ hEnv' = IF hEnv = "allocated" /\ Succeeded(o.rc) THEN "ready" ELSE hEnv
          /\ Raise(t, "initRelease", st.err)
  /\ UNCHANGED <<odbc, lock, natives, restVars>>

\* line 231: the finally clause of init; then init returns or raises, and
\* connect goes on when it returned.
InitRelease(t) ==
  /\ At(t, "initRelease")
  /\ lock' = 0
  /\ IF Raised(thread[t].err)
       THEN /\ thread' = [thread EXCEPT ![t] = Idle(@.ops, "raised")]
            /\ UNCHANGED natives
       ELSE /\ natives' = [natives EXCEPT !.initReturned = TRUE]
            /\ IF thread[t].op = "init"
                 THEN thread' = [thread EXCEPT ![t] = Idle(@.ops, "returned")]
                 ELSE Goto(t, "allocDbc")
  /\ UNCHANGED <<odbc, hEnv, restVars>>

\* lines 269-270
AllocDbc(t) ==
  /\ At(t, "allocDbc")
  /\ \E o \in IF hEnv \in {"allocated", "ready"} THEN Outcomes3 ELSE {InvalidHandle} :
       LET st == checkStatus(o, "SQLAllocHandle", {})
       IN IF Raised(st.err)
            THEN thread' = [thread EXCEPT ![t] = Idle(@.ops, "raised")]
            ELSE thread' = [thread EXCEPT ![t].pc = "connAcquire",
                                          ![t].hDbc = IF Succeeded(o.rc) THEN "valid" ELSE @]
  /\ UNCHANGED <<odbc, hEnv, lock, natives, restVars>>

\* line 273
Handshake(t) ==
  /\ At(t, "handshake")
  /\ \E o \in OutcomesOn(thread[t].hDbc, Outcomes3) :
       thread' = [thread EXCEPT ![t].pc = "connRelease", ![t].rc = o.rc,
                                ![t].err = checkStatus(o, "SQLDriverConnectW", {}).err]
  /\ UNCHANGED <<odbc, hEnv, lock, natives, restVars>>

\* lines 274-276: the finally clause, then the status check of the
\* handshake.
ConnRelease(t) ==
  /\ At(t, "connRelease")
  /\ lock' = 0
  /\ thread' = [thread EXCEPT ![t] = Idle(@.ops, IF Raised(@.err) THEN "raised" ELSE "returned")]
  /\ UNCHANGED <<odbc, hEnv, natives, restVars>>

NextThreads ==
  \E t \in Threads :
    \/ Start(t)
    \/ Acquire(t)
    \/ LibCheck(t)
    \/ LibLoad(t)
    \/ EnvCheck(t)
    \/ EnvNew(t)
    \/ EnvAlloc(t)
    \/ EnvAttr(t)
    \/ InitRelease(t)
    \/ AllocDbc(t)
    \/ Handshake(t)
    \/ ConnRelease(t)

SpecThreads == Init /\ [][NextThreads]_vars

\* C14: in every interleaving the library is loaded at most once and
\* SQLAllocHandle(ENV) is called at most once, and exactly once each when
\* an init() has returned normally; after that no init() changes odbc or
\* hEnv; the lock is held exactly by the one thread that is between an
\* acquire and its release, so a thread that left init() or the handshake,
\* by return or by exception, does not hold it.
C14_InitOnceLockReleased ==
  /\ [](/\ natives.loads <= 1
        /\ natives.envAllocs <= 1
        /\ natives.initReturned => (natives.loads = 1 /\ natives.envAllocs = 1)
        /\ \A t \in Threads : thread[t].pc \in Critical <=> lock = t)
  /\ [][natives.initReturned => (odbc' = odbc /\ hEnv' = hEnv)]_vars

\* Two threads have each finished a call: one raised out of init() or
\* connect, one returned from an init() that found the library loaded and
\* the environment set, and the lock is free.
C14_Witness ==
  /\ lock = 0
  /\ natives.initReturned
  /\ natives.loads = 1
  /\ \E t, u \in Threads :
       /\ t # u
       /\ thread[t].pc = "idle" /\ thread[t].result = "raised"
       /\ thread[u].pc = "idle" /\ thread[u].result = "returned" /\ thread[u].ops = 2

\* The last operation was a connect whose handshake succeeded and that
\* raised afterwards.
SetupFailed ==
  /\ IsOp("connect")
  /\ Raised(lastOp.err)
  /\ handshook[lastOp.conn]
  /\ CallIdx("SQLSetConnectAttr") # {}
CloseMethods == {"SQLDisconnect", "SQLFreeHandle", "SQLEndTran - SQL_ROLLBACK - Disconnect"}

\* C15: when connect raises after the handshake, the connection is closed:
\* its handle is None, it is not in the registry, its cursor list is empty
\* and none of its cursors holds a statement handle, and the error raised
\* is not one of close().
C15_SetupFailureCloses ==
  SetupFailed =>
    /\ hDbc[lastOp.conn] = "None"
    /\ ~InSeq(lastOp.conn, connections)
    /\ cursors[lastOp.conn] = <<>>
    /\ \A k \in CursorIds : k[1] = lastOp.conn => hStmt[k] # "valid"
    /\ lastOp.err.fn \notin CloseMethods

LiveCursors(c) == {k \in CursorIds : k[1] = c /\ hStmt[k] = "valid"}
StmtFrees(cs) == {i \in DOMAIN cs : cs[i].fn = "SQLFreeHandle" /\ cs[i].arg = "STMT"}
Disconnects(cs) == {i \in DOMAIN cs : cs[i].fn = "SQLDisconnect"}

\* C16: between operations a cursor is in its connection's list exactly
\* when it holds a statement handle; a close() of an open connection frees
\* the statement handle of each of its live cursors before it issues
\* SQLDisconnect; and when it returns normally the connection's cursor list
\* is empty, none of its cursors holds a statement handle, its own handle
\* is None and it is not in the registry.
C16_CursorsClosedFirst ==
  /\ [](\A k \in CursorIds : InSeq(k, cursors[k[1]]) <=> hStmt[k] = "valid")
  /\ [][(lastOp'.op = "Connection.close" /\ HandleSet(hDbc[lastOp'.conn])) =>
          /\ Disconnects(calls') # {} =>
               /\ Cardinality(StmtFrees(calls')) = Cardinality(LiveCursors(lastOp'.conn))
               /\ \A i \in StmtFrees(calls') : i < Min(Disconnects(calls'))
          /\ ~Raised(lastOp'.err) =>
               /\ cursors'[lastOp'.conn] = <<>>
               /\ \A k \in CursorIds : k[1] = lastOp'.conn => hStmt'[k] \notin {"valid", "nullptr"}
               /\ hDbc'[lastOp'.conn] = "None"
               /\ ~InSeq(lastOp'.conn, connections')]_vars


\* A close() that returned normally on a connection with a live cursor:
\* it freed the statement handle, then disconnected, and left the
\* connection closed.
C16_Witness ==
  /\ IsOp("Connection.close")
  /\ ~Raised(lastOp.err)
  /\ StmtFrees(calls) # {}
  /\ Disconnects(calls) # {}
  /\ hDbc[lastOp.conn] = "None"
  /\ cursors[lastOp.conn] = <<>>
  /\ \E k \in CursorIds : k[1] = lastOp.conn /\ hStmt[k] = "None"

(***************************************************************************)
(* SpecDiag: getDiagnosticInfo on every list of up to MaxDiag records      *)
(* whose messages are short, one character shorter than the message        *)
(* buffer, exactly as long, or longer, and every code the driver may give  *)
(* past the last record.                                                    *)
(***************************************************************************)
MessageLengths ==
  {1, SMALL_BUFFER_SIZE - 1, SMALL_BUFFER_SIZE, SMALL_BUFFER_SIZE + 1, 2 * SMALL_BUFFER_SIZE}
NativeCodes == {3706, -3706}
DiagRecords ==
  [state : {"HY000", SQL_STATE_DATA_TRUNCATED}, msgLen : MessageLengths, native : NativeCodes]

DiagInputs ==
  [fn : {"getDiagnosticInfo"}, recs : SeqsUpTo(DiagRecords, MaxDiag), endRc : DiagEnds]

InitDiag ==
  /\ LifeInit
  /\ input \in DiagInputs
  /\ output = Pending

ApplyGetDiagnosticInfo ==
  /\ input.fn = "getDiagnosticInfo"
  /\ output = Pending
  /\ output' = getDiagnosticInfo(input.recs, input.endRc)
  /\ UNCHANGED <<lifeVars, threadVars, calls, lastOp, input>>

NextDiag == ApplyGetDiagnosticInfo

SpecDiag == InitDiag /\ [][NextDiag]_vars

DiagDone == input.fn = "getDiagnosticInfo" /\ output # Pending
RequestsFor(i) == {q \in DOMAIN output.reqs : output.reqs[q].infoNumber = i}

\* C17: getDiagnosticInfo asks for the indexes 1, 2, ... in order until one
\* yields no-data, and returns one entry per record of the driver, in
\* order, with the record's state and its whole message; a record whose
\* message fits the buffer is asked for once, one whose message does not
\* fit is asked for twice, the second time with a buffer of the reported
\* length; no index is asked for more than twice.
C17_AllRecordsOnce ==
  DiagDone =>
    /\ \A q \in DOMAIN output.reqs : q > 1 =>
         output.reqs[q].infoNumber \in {output.reqs[q - 1].infoNumber,
                                        output.reqs[q - 1].infoNumber + 1}
    /\ \A i \in DOMAIN input.recs :
         /\ Cardinality(RequestsFor(i)) <= 2
         /\ Cardinality(RequestsFor(i)) = 2 <=>
              input.recs[i].msgLen >= output.reqs[Min(RequestsFor(i))].bufLen
         /\ Cardinality(RequestsFor(i)) = 2 =>
              output.reqs[Max(RequestsFor(i))].bufLen = input.recs[i].msgLen
    /\ Len(output.info) = Len(input.recs)
    /\ \A i \in DOMAIN output.info :
         /\ output.info[i].state = input.recs[i].state
         /\ output.info[i].msg = input.recs[i].msgLen
    /\ Raised(output.err) <=> input.endRc # SQL_NO_DATA

\* The records checkStatus scans: what getDiagnosticInfo returns for the
\* handle.
StatusInfo == getDiagnosticInfo(input.o.recs, input.o.endRc).info

\* C18: for a failure code with records, the first record decides: when
\* its state is not ignored checkStatus raises a DatabaseError with that
\* record's code, message and state; when it is ignored checkStatus does
\* not raise, whatever follows, and returns that record's state alone.  For
\* success-with-info it never raises and returns the states of all the
\* records in order.
C18_ScanStopsAtFirst ==
  (StatusDone /\ StatusDiagRead) =>
    /\ (Failure(StatusRc) /\ StatusInfo # <<>>) =>
         IF input.ignore = {} \/ StatusInfo[1].state \notin input.ignore
           THEN /\ output.err = Err("DatabaseError", StatusInfo[1].state, "Method")
                /\ output.args = DatabaseErrorArgs(StatusInfo[1])
           ELSE /\ ~Raised(output.err)
                /\ output.sqlState = <<StatusInfo[1].state>>
    /\ StatusRc = SQL_SUCCESS_WITH_INFO =>
         /\ ~Raised(output.err)
         /\ output.sqlState = [i \in DOMAIN StatusInfo |-> StatusInfo[i].state]

\* A failure whose first record is ignored and whose second, with another
\* state and another code, is not: nothing is raised and only the first
\* state is returned; and a success-with-info with two records that are not
\* ignored.
C18_Witness ==
  /\ StatusDone
  /\ StatusDiagRead
  /\ Len(StatusInfo) = 2
  /\ \/ /\ StatusRc = SQL_ERROR
        /\ StatusInfo[1].state \in input.ignore
        /\ StatusInfo[2].state \notin input.ignore
        /\ input.o.recs[2].native < 0
        /\ output.sqlState = <<StatusInfo[1].state>>
     \/ /\ StatusRc = SQL_SUCCESS_WITH_INFO
        /\ input.ignore = {}
        /\ input.o.recs[1].native < 0
        /\ Len(output.sqlState) = 2

\* The calls of the operation that returned a failure code and left a
\* diagnostic record.
FailedCalls ==
  {i \in DOMAIN output.calls : Failure(output.calls[i].rc) /\ output.calls[i].states # <<>>}

\* C19: a native call of a statement operation that returns a failure code
\* with a diagnostic record is the last native call the operation issues,
\* and the operation raises: its return code went to the status check
\* before any further call.
C19_EveryCallChecked ==
  StatementDone =>
    \A i \in FailedCalls : i = Len(output.calls) /\ Raised(output.err)

\* The operation bound its parameters row by row (line 425): executemany
\* without batch, and callproc whose timeout, taken as batch, is 0.
PerRowMode ==
  \/ ExecutemanyDone /\ ~Truthy(input.batch)
  \/ CallprocDone /\ input.queryTimeout = 0

\* The Python value a per-row bind carries.
BoundValue(c) ==
  IF input.fn = "callproc" THEN input.params[c.ordinal]
  ELSE input.params[c.rows[1]][c.ordinal]

\* C20: in per-row mode every bind has the binary value type and the binary
\* parameter type when its own value is a byte array, and otherwise the
\* wide-character value type with the long-text parameter type when the
\* statement declares long text for its ordinal and the default text type
\* when it does not, whatever was bound before it in the row.
C20_TypeByOwnParameter ==
  PerRowMode =>
    \A i \in DOMAIN output.calls :
      IsBind(output.calls[i]) =>
        LET c == output.calls[i]
        IN IF BoundValue(c).kind = "bytearray"
             THEN c.valueType = SQL_C_BINARY /\ c.paramType = SQL_LONGVARBINARY
             ELSE /\ c.valueType = SQL_C_WCHAR
                  /\ c.paramType = IF input.dataTypes[c.ordinal] = SQL_WLONGVARCHAR
                                     THEN SQL_WLONGVARCHAR ELSE SQL_WVARCHAR

\* The operation chose column-wise binding (line 481, the first call of
\* _executeManyBatch).
Columnar ==
  \E i \in DOMAIN output.calls :
    /\ output.calls[i].fn = "SQLSetStmtAttr"
    /\ output.calls[i].arg = "SQL_ATTR_PARAM_BIND_TYPE"

\* The binds of the operation, in the order issued.
BindCalls == SelectSeq(output.calls, IsBind)

\* C21: column-wise binding is chosen only by executemany with a true batch
\* argument, and then whenever the operation completes; execute and
\* callproc that complete with parameters bound each parameter of the one
\* row in per-row mode, whatever their timeout.
C21_BatchOnlyWhenSelected ==
  StatementDone =>
    /\ Columnar => (input.fn = "executemany" /\ Truthy(input.batch))
    /\ (input.fn = "executemany" /\ Truthy(input.batch) /\ ~Raised(output.err)) => Columnar
    /\ (input.fn \in {"execute", "callproc"} /\ ~Raised(output.err)) =>
         /\ Len(BindCalls) = Len(input.params)
         /\ \A k \in DOMAIN BindCalls : BindCalls[k].ordinal = k /\ BindCalls[k].rows = <<1>>

\* The positions in the calls of the get-data calls for column col of the
\* row-th row fetched.
GetDataIdx(row, col) ==
  {i \in DOMAIN output.calls :
     /\ output.calls[i].fn = "SQLGetData"
     /\ output.calls[i].col = col
     /\ Cardinality({j \in 1..i : output.calls[j].fn = "SQLFetch"}) = row}

\* C22: for every binary value of a row the iterator yielded: when it is
\* longer than the working buffer the iterator issued the first call and
\* exactly one continuation call, whose target starts at offset bufSize of
\* the value and takes the total length less bufSize bytes, and the value
\* yielded has the total length and is the buffer's content followed by the
\* tail; when it fits, the first call is the only one.
C22_BinaryContinuation ==
  FetchDone =>
    \A row \in DOMAIN output.rows : \A col \in DOMAIN input.description :
      LET stored == input.resultSet[row][col]
          idx == GetDataIdx(row, col)
      IN (input.description[col] /\ stored.kind # "None") =>
           /\ output.rows[row][col] = stored
           /\ IF Len(stored.v) > input.bufSize
                THEN /\ Cardinality(idx) = 2
                     /\ output.calls[Min(idx)].target = "buf"
                     /\ output.calls[Min(idx)].length = Len(stored.v)
                     /\ output.calls[Max(idx)].target = "newBuffer"
                     /\ output.calls[Max(idx)].offset = input.bufSize
                     /\ output.calls[Max(idx)].size = Len(stored.v) - input.bufSize
                     /\ output.calls[Max(idx)].rc = SQL_SUCCESS
                ELSE /\ Cardinality(idx) = 1
                     /\ output.calls[Min(idx)].target = "buf"

\* A second row whose binary column is one byte longer than the working
\* buffer was yielded whole after a row that fitted.
C22_Witness ==
  /\ FetchDone
  /\ Len(output.rows) = 2
  /\ input.description = <<TRUE>>
  /\ input.resultSet[1][1].kind = "bytearray"
  /\ Len(input.resultSet[1][1].v) = input.bufSize
  /\ input.resultSet[2][1].kind = "bytearray"
  /\ Len(input.resultSet[2][1].v) = input.bufSize + 1
  /\ output.rows[2][1] = input.resultSet[2][1]
  /\ Cardinality(GetDataIdx(2, 1)) = 2

(***************************************************************************)
(* SpecResults: one cursor taken through a sequence of execute,            *)
(* executemany and nextset calls.  The cursor's result attributes are kept *)
(* in output, with the result set the driver holds for the statement; at   *)
(* most one native call of an operation fails.  An iterator is named by   *)
(* the number of the _handleResults run that created it.                   *)
(***************************************************************************)
MaxExecs == 3
MaxResultCols == 2

ColumnNames == {"a", "b"}
RowCounts == {-1, 1}
ResultSets ==
  UNION {[columnCount : {n}, rowCount : RowCounts, names : SeqsOfLen(ColumnNames, n)]
         : n \in 0..MaxResultCols}

PyList(s) == [kind |-> "list", v |-> s]

\* The cursor before its first execution.
NewResults ==
  [description |-> PyNone, rowcount |-> -1, rownumber |-> PyNone,
   columns |-> <<>>, types |-> <<>>, iterator |-> 0,
   runs |-> 0, ops |-> 0, current |-> PyNone, op |-> "none", err |-> NoErr]

\* self.columns[columnName.lower()] = col (line 590), for the columns
\* 1..k: a name seen twice keeps the later column.
ColumnsDict(names, k) ==
  [n \in {names[i] : i \in 1..k} |-> Max({i \in 1..k : names[i] = n}) - 1]

\* _handleResults (lines 557-594) on the cursor cur, of which r is the run
\* of its native calls against the result set rs.  self.iterator is
\* assigned at line 594 only.
handleResultsOn(cur, rs, r) ==
  LET n == Len(r.calls)
      raised == Raised(r.err)
      counted == n > 2 \/ (n = 2 /\ ~raised)
      k == Cardinality({i \in 1..n : r.calls[i].fn = "SQLColAttributeW"})
      inLoop == counted /\ rs.columnCount > 0
  IN [cur EXCEPT
        !.description = IF inLoop THEN PyList(SubSeq(rs.names, 1, k)) ELSE PyNone,
        !.rowcount = IF counted THEN rs.rowCount ELSE -1,
        !.rownumber = PyNone,
        !.columns = IF inLoop THEN ColumnsDict(rs.names, k) ELSE <<>>,
        !.types = IF inLoop THEN [i \in 1..k |-> "type"] ELSE <<>>,
        !.iterator = IF inLoop /\ ~raised THEN cur.runs + 1 ELSE cur.iterator,
        !.runs = cur.runs + 1,
        !.current = IF raised THEN cur.current ELSE rs,
        !.err = r.err]

\* A cursor operation whose steps end with those of _handleResults: the
\* cursor is untouched when a call before them raises.
withResults(cur, steps, rs, failAt, o) ==
  LET r == RunSteps(steps, failAt, o)
      pre == Len(steps) - Len(handleResults(rs.columnCount))
      hr == [calls |-> SubSeq(r.calls, pre + 1, Len(r.calls)), err |-> r.err]
  IN IF Len(r.calls) <= pre THEN [cur EXCEPT !.err = r.err]
     ELSE handleResultsOn(cur, rs, hr)

\* nextset (lines 596-601)
nextsetSteps(columnCount) ==
  <<Native("SQLMoreResults", "", 0)>> \o handleResults(columnCount)

InitResults ==
  /\ LifeInit
  /\ input = [fn |-> "results"]
  /\ output = NewResults

Began(op) == [output EXCEPT !.ops = @ + 1, !.op = op]

\* cursor.execute(query)
ResultsExecute ==
  /\ input.fn = "results"
  /\ output.ops < MaxExecs
  /\ \E rs \in ResultSets :
       LET steps == execute(<<>>, 0, 0, <<>>, rs.columnCount)
       IN \E failAt \in 0..Len(steps), o \in Outcomes2 :
            output' = withResults(Began("execute"), steps, rs, failAt, o)
  /\ UNCHANGED <<lifeVars, threadVars, calls, lastOp, input>>

\* cursor.executemany(query, [()]) on a statement without parameters
ResultsExecutemany ==
  /\ input.fn = "results"
  /\ output.ops < MaxExecs
  /\ \E rs \in ResultSets :
       LET steps == executemany(<<<<>>>>, PyBool(FALSE), 0, 0, <<>>, rs.columnCount)
       IN \E failAt \in 0..Len(steps), o \in Outcomes2 :
            output' = withResults(Began("executemany"), steps, rs, failAt, o)
  /\ UNCHANGED <<lifeVars, threadVars, calls, lastOp, input>>

\* cursor.nextset() when the statement holds a further result set
ResultsNextset ==
  /\ input.fn = "results"
  /\ output.ops < MaxExecs
  /\ output.current # PyNone
  /\ \E rs \in ResultSets :
       LET steps == nextsetSteps(rs.columnCount)
       IN \E failAt \in 0..Len(steps), o \in Outcomes2 :
            output' = withResults(Began("nextset"), steps, rs, failAt, o)
  /\ UNCHANGED <<lifeVars, threadVars, calls, lastOp, input>>

\* cursor.nextset() when there is none: SQLMoreResults returns SQL_NO_DATA,
\* nextset returns None and the cursor is left as it was.
ResultsNextsetNoData ==
  /\ input.fn = "results"
  /\ output.ops < MaxExecs
  /\ output.current # PyNone
  /\ output' = [Began("nextset-none") EXCEPT !.err = NoErr]
  /\ UNCHANGED <<lifeVars, threadVars, calls, lastOp, input>>

NextResults ==
  ResultsExecute \/ ResultsExecutemany \/ ResultsNextset \/ ResultsNextsetNoData

SpecResults == InitResults /\ [][NextResults]_vars

\* The last operation was an execute, an executemany or a nextset that
\* found a further result set, and it returned normally.
ResultsFresh ==
  /\ input.fn = "results"
  /\ output.op \in {"execute", "executemany", "nextset"}
  /\ ~Raised(output.err)

\* C23: after an execute, an executemany or a successful nextset the
\* cursor's descriptors, name map and row count are those of the result
\* set the statement now holds, and its iterator is the one created by
\* this run of _handleResults when the result set has columns and absent
\* when it has none.
C23_ResultStateIsCurrent ==
  ResultsFresh =>
    LET rs == output.current
    IN /\ output.rowcount = rs.rowCount
       /\ output.description =
            (IF rs.columnCount > 0 THEN PyList(rs.names) ELSE PyNone)
       /\ output.columns = ColumnsDict(rs.names, rs.columnCount)
       /\ output.iterator = (IF rs.columnCount > 0 THEN output.runs ELSE 0)

\* The last native call of the last operation was an SQLFreeHandle that
\* returned SQL_INVALID_HANDLE.
FreeFoundInvalid ==
  /\ calls # <<>>
  /\ calls[Len(calls)].fn = "SQLFreeHandle"
  /\ calls[Len(calls)].rc = SQL_INVALID_HANDLE

\* C24: a close() of a connection or of a cursor whose SQLFreeHandle
\* returns SQL_INVALID_HANDLE does not raise, and leaves the object with
\* its handle cleared and out of the registry, or of the cursors its
\* connection owns.
C24_FreeToleratesInvalidHandle ==
  (lastOp.op \in {"Cursor.close", "Connection.close"} /\ FreeFoundInvalid) =>
    /\ ~Raised(lastOp.err)
    /\ IF lastOp.op = "Cursor.close"
         THEN /\ hStmt[lastOp.cur] = "None"
              /\ ~InSeq(lastOp.cur, cursors[lastOp.conn])
         ELSE /\ hDbc[lastOp.conn] = "None"
              /\ ~InSeq(lastOp.conn, connections)

\* The values of the column of ordinal n as _executeManyBatch collects them
\* (lines 511-522), and the longest of them.
ColumnValues(n) ==
  [r \in DOMAIN input.params |->
     IF input.params[r][n].kind = "bytearray" THEN input.params[r][n]
     ELSE convertParam(input.params[r][n])]
Longest(n) ==
  Max({0} \cup {Len(ColumnValues(n)[r].v) :
                  r \in {q \in DOMAIN input.params : ColumnValues(n)[q].kind # "None"}})

\* C25: a batched executemany whose rows have the statement's parameter
\* count raises nothing of its own, and for every ordinal the array bound
\* has rows x stride elements, the stride being the longest value for a
\* binary column and one more for a text column; every write for a row
\* falls inside the row's slot of the array, and the row's length entry is
\* SQL_NULL_DATA exactly when its value is None.
C25_BatchWritesInSlot ==
  (ExecutemanyDone /\ Truthy(input.batch) /\ BadRows = {} /\ AllSucceeded) =>
    /\ ~Raised(output.err)
    /\ \A i \in DOMAIN output.calls :
         IsBind(output.calls[i]) =>
           LET c == output.calls[i]
               binary == c.valueType = SQL_C_BINARY
               stride == Longest(c.ordinal) + (IF binary THEN 0 ELSE 1)
               p == ColumnValues(c.ordinal)
           IN /\ c.bufSize = stride
              /\ c.buf.size = Len(input.params) * stride
              /\ \A r \in DOMAIN input.params :
                   /\ c.lengths[r] = SQL_NULL_DATA <=> input.params[r][c.ordinal].kind = "None"
                   /\ LET ws == rowWrites(p, r, stride, binary)
                      IN \A k \in DOMAIN ws :
                           ws[k][1] \in ((r - 1) * stride)..(r * stride - 1)

\* C26: after every operation the registry of open connections holds a
\* connection exactly when the connection holds a valid handle obtained
\* through a successful handshake; a connect that fails before or in the
\* handshake leaves no entry and no allocated handle.
C26_RegistryIsOpenConnections ==
  \A c \in Conns :
    /\ InSeq(c, connections) <=> (hDbc[c] = "valid" /\ handshook[c])
    /\ (lastOp.op = "connect" /\ lastOp.conn = c /\ Raised(lastOp.err) /\ ~handshook[c]) =>
         hDbc[c] # "valid"

\* C27: once an init() has returned normally the environment handle is an
\* allocated handle on which SQLSetEnvAttr succeeded (the exit handlers are
\* registered between the two, lines 213-214), whatever init() calls came
\* before it.
C27_InitLeavesReadyEnv ==
  natives.initReturned => hEnv = "ready"
=============================================================================
